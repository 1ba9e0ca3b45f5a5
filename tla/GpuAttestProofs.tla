--------------------------- MODULE GpuAttestProofs ---------------------------
(***************************************************************************)
(* What the exit status and the output of gpu_attest.py mean, and what the *)
(* gateway makes of them, for nonces and arguments of any length.          *)
(***************************************************************************)
EXTENDS GpuAttest, SequenceTheorems, TLAPS

Silent  == {<<>>, <<"log">>}
Printed == {<<"json">>, <<"log", "json">>}
Tokens  == {"string", "other JSON"}

\* Before the SDK is called there is neither a result nor output of the script.
BeforeSdk ==
  /\ pc \in {"start", "validate", "import", "attest"} => result = "none"
  /\ pc \in {"start", "validate", "import"} => stdout = <<>>
  /\ pc = "attest" => stdout \in Silent

\* What may be there when the result is printed, and after it was.
AfterSdk ==
  /\ pc = "print"  => result \in Tokens \cup {"not JSON"} /\ stdout \in Silent
  /\ pc = "return" => result \in Tokens /\ stdout \in Printed

\* What each status says of the result and the output, if the script itself
\* ended, and what the output says however it ended.
StatusMeans ==
  /\ pc \in {"start", "validate", "import", "attest", "print", "return", "exited"}
  /\ pc # "exited" => status = "running" /\ ender = "nobody"
  /\ pc = "exited" =>
       \/ /\ ender # "script"
          /\ stdout \in Silent \/ (stdout \in Printed /\ result \in Tokens)
       \/ /\ ender = "script" /\ status = "0"
          /\ \/ result \in Tokens /\ stdout \in Printed
             \/ result = "none" /\ stdout = <<"help">>
       \/ /\ ender = "script" /\ status = "1"
          /\ stdout \in Silent
       \/ /\ ender = "script" /\ status = "2"
          /\ result = "none" /\ stdout = <<>>

\* The gateway passes its nonce, and decides once, after the script's end.
GatewayOK ==
  /\ caller = "gateway" => nonce = HexNonce
  /\ outcome = "token" =>
       /\ caller = "gateway"
       /\ pc = "exited" /\ status = "0"
       /\ result = "string" /\ stdout = <<"json">>

IInv == BeforeSdk /\ AfterSdk /\ StatusMeans /\ GatewayOK

-----------------------------------------------------------------------------

\* At most one line of the SDK comes before the result.
LEMMA Appended ==
  ASSUME NEW x, NEW y
  PROVE  Append(<<>>, x) = <<x>> /\ Append(<<x>>, y) = <<x, y>>
<1> DEFINE S == {x, y}
<1>1. /\ <<>> \in Seq(S) /\ <<x>> \in Seq(S) /\ <<x, y>> \in Seq(S)
      /\ x \in S /\ y \in S
  BY EmptySeq
<1> HIDE DEF S
<1>2. Append(<<>>, x) = <<x>>
  BY <1>1, AppendIsConcat, ConcatEmptySeq
<1>3. Append(<<x>>, y) = <<x, y>>
  <2>1. /\ Append(<<x>>, y) \in Seq(S)
        /\ Len(Append(<<x>>, y)) = 2
        /\ Append(<<x>>, y)[1] = x
        /\ Append(<<x>>, y)[2] = y
    BY <1>1, AppendProperties
  <2>2. \A i \in 1..2 : Append(<<x>>, y)[i] = <<x, y>>[i]
    BY <2>1
  <2>3. Len(<<x, y>>) = 2
    OBVIOUS
  <2> HIDE DEF S
  <2> QED
    BY <1>1, <2>1, <2>2, <2>3, SeqEqual, Zenon
<1> QED
  BY <1>2, <1>3

\* The helpers of the output are four different sequences.
LEMMA Outputs ==
  /\ \A out \in Silent : {out[i] : i \in DOMAIN out} \cap {"json", "help"} = {}
  /\ \A out \in Printed : "json" \in {out[i] : i \in DOMAIN out}
  /\ {<<"help">>[i] : i \in DOMAIN <<"help">>} = {"help"}
<1>1. \A out \in Silent : \A i \in DOMAIN out : out[i] \notin {"json", "help"}
  BY DEF Silent
<1>2. ASSUME NEW out \in Printed PROVE \E i \in DOMAIN out : out[i] = "json"
  <2>1. CASE out = <<"json">>
    BY <2>1
  <2>2. CASE out = <<"log", "json">>
    BY <2>2
  <2> QED
    BY <2>1, <2>2 DEF Printed
<1>3. DOMAIN <<"help">> = {1} /\ <<"help">>[1] = "help"
  OBVIOUS
<1> QED
  BY <1>1, <1>2, <1>3

LEMMA InitInv == Init => IInv
BY DEF Init, IInv, BeforeSdk, AfterSdk, StatusMeans, GatewayOK, Silent

\* The steps up to the SDK end with status 2, 1 or, with the help, 0, or go on.
LEMMA SetupSteps ==
  ASSUME IInv, ParseArgs \/ ValidateNonce \/ ImportSdk
  PROVE  IInv'
<1> USE DEF IInv, BeforeSdk, AfterSdk, StatusMeans, GatewayOK, Silent
<1>1. CASE ParseArgs
  BY <1>1 DEF ParseArgs, Goto, Exit
<1>2. CASE ValidateNonce
  BY <1>2 DEF ValidateNonce, Goto, Exit
<1>3. CASE ImportSdk
  <2>1. stdout' \in Silent /\ pc = "import"
    BY <1>3 DEF ImportSdk, Logs
  <2> QED
    BY <1>3, <2>1 DEF ImportSdk, Goto, Exit
<1> QED
  BY <1>1, <1>2, <1>3

\* The call of the SDK, whatever it returns and logs.
LEMMA AttestStep ==
  ASSUME IInv, NEW answer \in Results, NEW logs \in BOOLEAN, Attest(answer, logs)
  PROVE  IInv'
<1>1. /\ pc = "attest" /\ stdout' \in Silent /\ result' = answer
      /\ UNCHANGED <<caller, nonce, outcome>>
  BY DEF Attest, IInv, BeforeSdk, Logs, Silent
<1>2. CASE answer \in {"raises", "no tokens"}
  BY <1>1, <1>2
  DEF Attest, Exit, IInv, BeforeSdk, AfterSdk, StatusMeans, GatewayOK
<1>3. CASE answer \in {"string", "other JSON", "not JSON"}
  BY <1>1, <1>3
  DEF Attest, Goto, IInv, BeforeSdk, AfterSdk, StatusMeans, GatewayOK, Tokens
<1> QED
  BY <1>2, <1>3 DEF Results

\* The SDK ends the process, before the result or after it.
LEMMA SdkExitsStep ==
  ASSUME IInv, NEW code, NEW logs \in BOOLEAN, SdkExits(code, logs)
  PROVE  IInv'
<1>1. /\ stdout' \in Silent \/ (stdout' \in Printed /\ result' \in Tokens)
      /\ pc # "exited" /\ pc' = "exited" /\ ender' = "sdk"
      /\ UNCHANGED <<caller, nonce, outcome>>
  BY DEF SdkExits, Logs, IInv, BeforeSdk, AfterSdk, Silent
<1> QED
  BY <1>1 DEF IInv, BeforeSdk, AfterSdk, StatusMeans, GatewayOK

LEMMA PrintStep ==
  ASSUME IInv, PrintResult
  PROVE  IInv'
<1>1. /\ pc = "print" /\ stdout \in Silent
      /\ result \in Tokens \cup {"not JSON"}
      /\ UNCHANGED <<caller, nonce, result, outcome>>
  BY DEF PrintResult, IInv, AfterSdk
<1>2. CASE Exit("1") /\ UNCHANGED stdout
  BY <1>1, <1>2 DEF Exit, IInv, BeforeSdk, AfterSdk, StatusMeans, GatewayOK
<1>3. CASE /\ result # "not JSON"
           /\ Goto("return") /\ stdout' = Append(stdout, "json")
  <2>1. stdout' \in Printed
    BY <1>1, <1>3, Appended DEF Silent, Printed
  <2>2. result' \in Tokens
    BY <1>1, <1>3
  <2> QED
    BY <1>1, <1>3, <2>1, <2>2
    DEF Goto, IInv, BeforeSdk, AfterSdk, StatusMeans, GatewayOK
<1> QED
  BY <1>2, <1>3 DEF PrintResult

LEMMA NextInv == IInv /\ [Next]_vars => IInv'
<1> SUFFICES ASSUME IInv, [Next]_vars PROVE IInv'
  OBVIOUS
<1>1. CASE Return
  BY <1>1 DEF Return, Exit, IInv, BeforeSdk, AfterSdk, StatusMeans, GatewayOK
<1>2. CASE Killed
  BY <1>2 DEF Killed, IInv, BeforeSdk, AfterSdk, StatusMeans, GatewayOK, Silent
<1>3. CASE GetGpuJwt
  BY <1>3 DEF GetGpuJwt, IInv, BeforeSdk, AfterSdk, StatusMeans, GatewayOK
<1>4. CASE UNCHANGED vars
  BY <1>4 DEF vars, IInv, BeforeSdk, AfterSdk, StatusMeans, GatewayOK
<1> QED
  BY <1>1, <1>2, <1>3, <1>4, SetupSteps, AttestStep, SdkExitsStep, PrintStep
  DEF Next, ScriptStep

\* The invariant holds in every reachable state.
LEMMA SpecInv == Spec => []IInv
BY InitInv, NextInv, PTL DEF Spec

-----------------------------------------------------------------------------
(* Theorems.                                                               *)

\* The gateway has a token only from a script that ran to its end on the
\* gateway's own nonce and printed the token and nothing else.
THEOREM TokensAreGenuine == Spec => []TokenFromSuccess
<1>1. IInv => TokenFromSuccess
  BY DEF IInv, GatewayOK, TokenFromSuccess
<1> QED
  BY <1>1, SpecInv, PTL

\* What the status and the output of gpu_attest.py say: the documentation's
\* meaning of the status whenever the script itself ended, and that a result is
\* one of attest() however it ended.
THEOREM StatusIsTrue == Spec => []ExitCodes
<1>1. ASSUME IInv PROVE ExitCodes
  <2> SUFFICES ASSUME pc = "exited"
               PROVE  /\ "json" \in Written => result \in Tokens
                      /\ ender = "script" =>
                           /\ status = "0" <=> Written \cap {"json", "help"} # {}
                           /\ status = "2" => result = "none" /\ stdout = <<>>
                           /\ result # "none" /\ "json" \notin Written
                                => status = "1"
    BY DEF ExitCodes, Tokens
  <2>1. /\ stdout \in Silent => Written \cap {"json", "help"} = {}
        /\ stdout \in Printed => "json" \in Written
        /\ stdout = <<"help">> => Written = {"help"}
    BY Outputs DEF Written
  <2>2. <<>> \in Silent
    BY DEF Silent
  <2> HIDE DEF Written
  <2> QED
    BY <1>1, <2>1, <2>2 DEF IInv, StatusMeans
<1> QED
  BY <1>1, SpecInv, PTL
=============================================================================
