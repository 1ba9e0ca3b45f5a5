------------------------------ MODULE MCRaTls ------------------------------
(***************************************************************************)
(* Values of the constants of RaTls for TLC.  Two chips, three images (m1  *)
(* and m2 run the gateway, m3 is something else on a genuine processor),   *)
(* the keys of AMD, of an RSA chain and of the stranger.                   *)
(***************************************************************************)
EXTENDS RaTls, TLC

CONSTANTS zero, m1, m2, m3, chip1, chip2, chip3, ark, ask, vcek1, vcek2,
          vcek3, mock, foreignTls, foreignRoot, foreignLeaf, rsaKey

MCMeasurements == {zero, m1, m2, m3}
MCChips        == {chip1, chip2, chip3}
MCP384         == {ark, ask, vcek1, vcek2, vcek3, mock, foreignRoot, foreignLeaf}
MCVcekOf       == (chip1 :> vcek1) @@ (chip2 :> vcek2) @@ (chip3 :> vcek3)

Args(amd, gpu_cc, backend) ==
  [amd |-> amd, gpu_cc |-> gpu_cc, gpu_attest_script |-> TRUE, backend |-> backend]

AmdServerArgs  == {Args(TRUE, FALSE, FALSE), Args(TRUE, TRUE, FALSE)}
AllServerArgs  == {Args(TRUE, FALSE, FALSE), Args(TRUE, TRUE, TRUE),
                   Args(FALSE, FALSE, TRUE)}
MixedServerArgs == {Args(FALSE, FALSE, TRUE), Args(FALSE, FALSE, FALSE),
                    Args(TRUE, FALSE, FALSE), Args(TRUE, TRUE, TRUE)}
MockServerArgs == [amd : {FALSE}, gpu_cc : BOOLEAN,
                   gpu_attest_script : BOOLEAN, backend : {FALSE}]

Machine(chip, image, cc) == [chip |-> chip, image |-> image, cc |-> cc]

OneMachine  == {Machine(chip1, m1, "ON")}
SwapMachines == {Machine(chip1, m1, "on"), Machine(chip2, m1, "on")}
AllMachines == {Machine(chip1, m1, "ON"), Machine(chip1, m2, "ON"),
                Machine(chip1, m1, "off")}

Certificate(pk, signer) == [pk |-> pk, signer |-> signer]

\* Each chip's VCEK, and a body that is no certificate (the gateway does not
\* parse it).
Vceks      == {Certificate(vcek1, ask), Certificate(vcek2, ask)}
AnyVceks   == {Certificate(vcek1, ask), Garbage}
GoodBundle == <<Certificate(ask, ark), Certificate(ark, ark)>>
RsaBundle  == <<Certificate(rsaKey, rsaKey), Certificate(rsaKey, rsaKey)>>
Bundles    == {GoodBundle}
AnyBundles == {GoodBundle, RsaBundle, <<Certificate(ask, ark)>>}

Config(amd, gpu_cc, expected) ==
  [amd |-> amd, gpu_cc |-> gpu_cc, expected_measurement |-> expected]

AmdConfigs   == {Config(TRUE, FALSE, m1), Config(TRUE, TRUE, m1),
                 Config(TRUE, FALSE, zero)}
MockConfigs  == {Config(FALSE, FALSE, zero)}
MixedConfigs == {Config(FALSE, FALSE, zero), Config(TRUE, FALSE, zero),
                 Config(TRUE, FALSE, m1)}
OneConfig    == {Config(TRUE, FALSE, m1)}

Token(cc) == [claims |-> [nonce |-> Hex(Sha256(foreignTls)), cc_mode |-> cc,
                          gpu_model |-> "H100"]]
Foreign(ext) == [spki |-> foreignTls, ext |-> ext]

ForeignReport(key, image, chip) ==
  signed_report(key, user_data(Sha256(foreignTls)), image, chip)

\* A genuine processor of the stranger with another image; a token it wrote
\* itself, as its signature is not checked.
OwnProcessor ==
  Foreign(Json(with_gpu_jwt(
    new_amd(ForeignReport(vcek3, m3, chip3),
            <<Certificate(vcek3, ask)>> \o GoodBundle), Token("on"))))

\* A report that claims m1, signed by a key the stranger certified itself under
\* AMD's intermediate (not AMD's signature), and under a root of its own.
WrongIssuer ==
  Foreign(Json(new_amd(ForeignReport(foreignLeaf, m1, chip1),
            <<Certificate(foreignLeaf, foreignRoot)>> \o GoodBundle)))
OwnRoot ==
  Foreign(Json(new_amd(ForeignReport(foreignLeaf, m1, chip1),
            <<Certificate(foreignLeaf, foreignRoot),
              Certificate(foreignRoot, foreignRoot),
              Certificate(foreignRoot, foreignRoot)>>)))

\* A mock report (the key is public), damaged encodings, no extension.
ForeignMock == Foreign(Json(new_mock(sign_mock_report(Sha256(foreignTls), zero))))
BadReport   == Foreign(Json(new_mock(None)))
BadScalar   == Foreign(Json(new_mock([sign_mock_report(Sha256(foreignTls), zero)
                                        EXCEPT !.sig = None])))
BadChain    == Foreign(Json(new_amd(ForeignReport(vcek3, m3, chip3), <<None>>)))
BadJson     == Foreign(Json(None))
NoExtension == Foreign(None)

AmdForeign   == {OwnProcessor, WrongIssuer, OwnRoot, BadChain, NoExtension}
MixedForeign == {OwnProcessor, ForeignMock, BadReport, BadScalar, BadJson}
RootForeign  == {OwnRoot}
=============================================================================
