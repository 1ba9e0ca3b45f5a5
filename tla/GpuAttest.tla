----------------------------- MODULE GpuAttest -----------------------------
(***************************************************************************)
(* gpu_attest.py, and get_gpu_jwt of the gateway that runs it and reads    *)
(* its exit status and its standard output.  An operator may run it too,   *)
(* with any argument.                                                      *)
(*                                                                         *)
(* A nonce is a sequence of the characters that the script tells apart:    *)
(* hex digits, white space, others.  NVIDIA's SDK is external: it may be   *)
(* missing, write to standard output, raise, return anything, or end the   *)
(* process itself with any status.                                         *)
(***************************************************************************)
EXTENDS Naturals, Sequences

CONSTANTS
  NonceLen,   \* 64: the length the script asks for
  MaxLen      \* bound: the length of an argument

ASSUME NonceAssumption ==
  /\ NonceLen \in Nat \ {0} /\ NonceLen % 2 = 0
  /\ MaxLen \in Nat /\ MaxLen >= NonceLen

VARIABLES
  caller,   \* "gateway" or "operator"
  nonce,    \* --nonce; <<"absent">> if the argument is missing, <<"help">> if
            \* --help is given
  pc,       \* next step of the script
  result,   \* what client.attest() returned
  stdout,   \* what was written, in order
  status,   \* exit status, "running" before
  ender,    \* who ended it: "script", "sdk", "signal", or "nobody" so far
  outcome   \* of get_gpu_jwt, "waiting" before

vars == <<caller, nonce, pc, result, stdout, status, ender, outcome>>

Characters == {"hex", "space", "other"}
Arguments  == UNION {[1..n -> Characters] : n \in 0..MaxLen}
HexNonce   == [i \in 1..NonceLen |-> "hex"]

\* First elements of what attest() can return, or why there is none.
Results == {"raises", "no tokens", "string", "other JSON", "not JSON"}

\* get_gpu_jwt passes hex::encode of a hash; it may not find python3.
Init ==
  /\ \/ caller = "gateway" /\ nonce = HexNonce /\ outcome \in {"waiting", "spawn"}
     \/ /\ caller = "operator" /\ outcome = "waiting"
        /\ nonce \in Arguments \cup {<<"absent">>, <<"help">>}
  /\ pc = IF outcome = "spawn" THEN "exited" ELSE "start"
  /\ result = "none"
  /\ stdout = <<>>
  /\ status = IF outcome = "spawn" THEN "none" ELSE "running"
  /\ ender = "nobody"

-----------------------------------------------------------------------------
(* The script.                                                             *)

Goto(next) ==
  /\ pc' = next
  /\ UNCHANGED <<status, ender>>

Exit(code) ==
  /\ pc' = "exited"
  /\ status' = code
  /\ ender' = "script"

\* What the SDK writes stands before the result as one element; it is taken to be
\* no result itself.
Logs(some) == stdout' = IF some THEN <<"log">> ELSE stdout

\* The interpreter opens the file, or exits with 2; parse_args does so when
\* the argument is missing.  With --help it writes the help and exits with 0.
ParseArgs ==
  /\ pc = "start"
  /\ \/ Exit("2") /\ UNCHANGED stdout
     \/ nonce = <<"help">> /\ Exit("0") /\ stdout' = <<"help">>
     \/ /\ nonce \notin {<<"absent">>, <<"help">>}
        /\ Goto("validate") /\ UNCHANGED stdout
  /\ UNCHANGED <<caller, nonce, result, outcome>>

\* bytes.fromhex: pairs of adjacent digits, with white space between pairs.
fromhex(s) ==
  LET reads[i \in 1..(Len(s) + 2)] ==
        \/ i = Len(s) + 1
        \/ /\ i <= Len(s) /\ s[i] = "space"
           /\ reads[i + 1]
        \/ /\ i < Len(s) /\ s[i] = "hex" /\ s[i + 1] = "hex"
           /\ reads[i + 2]
  IN  reads[1]

ValidateNonce ==
  /\ pc = "validate"
  /\ IF Len(nonce) = NonceLen /\ fromhex(nonce) THEN Goto("import") ELSE Exit("2")
  /\ UNCHANGED <<caller, nonce, result, stdout, outcome>>

\* The SDK is imported, or is missing; another exception of it ends the script
\* with 1 as well.
ImportSdk ==
  /\ pc = "import"
  /\ Goto("attest") \/ Exit("1")
  /\ \E some \in BOOLEAN : Logs(some)
  /\ UNCHANGED <<caller, nonce, result, outcome>>

\* Mutant: an empty list is passed on and printed as null.
Attest_none(answer, logs) ==
  /\ pc = "attest"
  /\ result' = answer
  /\ Logs(logs)
  /\ IF answer = "raises" THEN Exit("1") ELSE Goto("print")
  /\ UNCHANGED <<caller, nonce, outcome>>

\* The calls of the SDK in the try block return or raise an Exception.  sys.exit
\* in it raises SystemExit, which `except Exception` does not catch.
Attest(answer, logs) ==
  /\ pc = "attest"
  /\ result' = answer
  /\ Logs(logs)
  /\ IF answer \in {"raises", "no tokens"} THEN Exit("1") ELSE Goto("print")
  /\ UNCHANGED <<caller, nonce, outcome>>

\* print(json.dumps(result), flush=True); a TypeError of dumps or an output
\* that nobody reads ends the script.
PrintResult ==
  /\ pc = "print"
  /\ \/ Exit("1") /\ UNCHANGED stdout
     \/ /\ result # "not JSON"
        /\ Goto("return") /\ stdout' = Append(stdout, "json")
  /\ UNCHANGED <<caller, nonce, result, outcome>>

Return ==
  /\ pc = "return"
  /\ Exit("0")
  /\ UNCHANGED <<caller, nonce, result, stdout, outcome>>

\* SystemExit or KeyboardInterrupt out of the SDK, which `except Exception` lets
\* through, os._exit in it, or a hook of it when the interpreter ends: any
\* status, those that the script documents included.
SdkExits(code, logs) ==
  /\ \/ pc \in {"import", "attest"} /\ Logs(logs)
     \/ pc = "return" /\ UNCHANGED stdout
  /\ pc' = "exited"
  /\ status' = code
  /\ ender' = "sdk"
  /\ UNCHANGED <<caller, nonce, result, outcome>>

\* A signal, at any point.
Killed ==
  /\ pc # "exited"
  /\ pc' = "exited"
  /\ status' = "signal"
  /\ ender' = "signal"
  /\ UNCHANGED <<caller, nonce, result, stdout, outcome>>

-----------------------------------------------------------------------------
(* The gateway.                                                            *)

\* Mutant: the output is parsed whatever the status.
GetGpuJwt_any_status ==
  /\ caller = "gateway" /\ outcome = "waiting"
  /\ pc = "exited"
  /\ outcome' = IF stdout = <<"json">> /\ result = "string" THEN "token" ELSE "parse"
  /\ UNCHANGED <<caller, nonce, pc, result, stdout, status, ender>>

\* Mutant: only success is waited for.
GetGpuJwt_until_success ==
  /\ caller = "gateway" /\ outcome = "waiting"
  /\ pc = "exited" /\ status = "0"
  /\ outcome' = IF stdout = <<"json">> /\ result = "string" THEN "token" ELSE "parse"
  /\ UNCHANGED <<caller, nonce, pc, result, stdout, status, ender>>

\* output().await, the status, then serde_json on all of standard output, with
\* a field jwt that is a string.
GetGpuJwt ==
  /\ caller = "gateway" /\ outcome = "waiting"
  /\ pc = "exited"
  /\ outcome' =
       IF status # "0" THEN "failed"
       ELSE IF stdout = <<"json">> /\ result = "string" THEN "token"
       ELSE "parse"
  /\ UNCHANGED <<caller, nonce, pc, result, stdout, status, ender>>

\* Steps that take their time but end: the SDK's own call may not.
ScriptStep == ParseArgs \/ ValidateNonce \/ ImportSdk \/ PrintResult \/ Return

Next ==
  \/ ScriptStep
  \/ \E answer \in Results, logs \in BOOLEAN : Attest(answer, logs)
  \/ \E code \in {"0", "1", "2", "other"}, logs \in BOOLEAN : SdkExits(code, logs)
  \/ Killed
  \/ GetGpuJwt

Spec == Init /\ [][Next]_vars

FairSpec == Spec /\ WF_vars(ScriptStep) /\ WF_vars(GetGpuJwt)

-----------------------------------------------------------------------------
(* Properties.                                                             *)

\* The gateway has a token only from a script that ran to its end on the
\* gateway's nonce: not from one that was killed with its output written, nor
\* from output that holds anything else.
TokenFromSuccess ==
  outcome = "token" =>
    status = "0" /\ result = "string" /\ stdout = <<"json">> /\ nonce = HexNonce

Written == {stdout[i] : i \in DOMAIN stdout}

\* The exit codes of the script's documentation hold whenever the script itself
\* comes to an end: 0 if and only if it has written the result, of an attest()
\* that returned a token, or the help it was asked for; 1 for whatever goes
\* wrong in or after the SDK; 2 only before the SDK is used.  Neither holds of a
\* script that the SDK or a signal ends: then only what is written can be
\* relied on, which is never a result that attest() did not return.
ExitCodes ==
  pc = "exited" =>
    /\ "json" \in Written => result \in {"string", "other JSON"}
    /\ ender = "script" =>
         /\ status = "0" <=> Written \cap {"json", "help"} # {}
         /\ status = "2" => result = "none" /\ stdout = <<>>
         /\ result # "none" /\ "json" \notin Written => status = "1"

\* A gateway that has started the script learns how it ended, unless the SDK
\* never returns: get_gpu_jwt sets no timeout.
GatewayLearns ==
  caller = "gateway" ~> outcome # "waiting" \/ pc = "attest"
=============================================================================
