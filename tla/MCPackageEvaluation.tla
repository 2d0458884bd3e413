------------------------ MODULE MCPackageEvaluation ------------------------
(***************************************************************************)
(* Instances of PackageEvaluation for TLC: three requests, two workers,    *)
(* and two packages, of which one is requested twice, before the other.    *)
(***************************************************************************)
EXTENDS PackageEvaluation, TLC

CONSTANTS varied, plain

MCPackages  == {varied, plain}
MCPackageOf == <<plain, plain, varied>>

\* An established, attested package, and the ways in which one differs.
Sound == [source |-> "registry", declared |-> TRUE, prior |-> "none", exists |-> TRUE,
          scripts |-> "none", date |-> "old", header |-> "none", attestation |-> "own",
          history |-> <<"own", "own">>, allowlisted |-> FALSE, squat |-> FALSE,
          required |-> FALSE, pinned |-> TRUE, sigstore |-> FALSE]

Fresh    == [Sound EXCEPT !.date = "new", !.header = "old"]
Unlisted == [Sound EXCEPT !.date = "unlisted", !.header = "old"]
Undated  == [Sound EXCEPT !.date = "unlisted"]
Garbled  == [Sound EXCEPT !.date = "invalid", !.header = "old"]
Vouched  == [Undated EXCEPT !.allowlisted = TRUE]
Missing  == [Sound EXCEPT !.exists = FALSE, !.squat = TRUE]
Scripted == [Sound EXCEPT !.scripts = "allowed", !.prior = "gone"]
Updated  == [Sound EXCEPT !.scripts = "unallowed", !.prior = "scripted", !.squat = TRUE,
                          !.allowlisted = TRUE]
Dropped  == [Sound EXCEPT !.attestation = "none", !.scripts = "unallowed"]
Needed   == [Sound EXCEPT !.attestation = "none", !.required = TRUE,
                          !.history = <<"none", "own", "fork">>]
Forged   == [Sound EXCEPT !.attestation = "forged", !.history = <<>>]
Mismatch == [Sound EXCEPT !.attestation = "fork", !.pinned = FALSE,
                          !.history = <<"own", "fork">>]
Pinned   == [Sound EXCEPT !.attestation = "fork", !.history = <<"fork", "own">>]
Remote   == [Sound EXCEPT !.source = "git"]
Linked   == [Sound EXCEPT !.source = "workspace"]
Verifier == [Sound EXCEPT !.sigstore = TRUE, !.header = "new", !.history = <<"unnamed", "none", "own">>]

\* Installed here before.
Installed == [Sound EXCEPT !.prior = "plain"]

AllFacts == {Sound, Fresh, Unlisted, Undated, Garbled, Vouched, Missing, Scripted, Updated, Dropped, Needed,
             Forged, Mismatch, Pinned, Remote, Linked, Verifier}

Default == [command |-> "install", sources |-> {"registry"}, typoSquat |-> "off",
            provenance |-> "off", offline |-> "fail-closed", tooling |-> "warn",
            verifier |-> TRUE, continuity |-> "off", baselineSize |-> 2]

Strict  == [Default EXCEPT !.typoSquat = "block", !.provenance = "require",
                           !.tooling = "fail-closed", !.continuity = "block"]
Lax     == [Strict EXCEPT !.command = "check", !.offline = "allow-cached",
                          !.sources = {"registry", "git"}]
Bare    == [Strict EXCEPT !.typoSquat = "warn", !.provenance = "warn", !.verifier = FALSE,
                          !.continuity = "off"]

\* The last package may be anything; the first is installed, or too new.
MCKnownFacts == (varied :> AllFacts) @@ (plain :> {Installed, Fresh})
MCConfigs    == {Default, Strict, Lax, Bare}

MCWarm == {varied}

OneFact   == (varied :> {Sound}) @@ (plain :> {Sound})
OneConfig == {Strict}
=============================================================================
