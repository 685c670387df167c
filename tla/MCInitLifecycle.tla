-------------------------- MODULE MCInitLifecycle --------------------------
EXTENDS InitLifecycle

\* planes: what is enabled, and found in the process.
Good == [valid |-> TRUE, pdp |-> "none", manifest |-> "ok", version |-> 1, pii |-> "ok",
         secrets |-> TRUE, planes |-> Planes]

\* Three that boot, and one for every way to fail (a missing secret is one for version 2 only).
MCOptions ==
    {Good, [Good EXCEPT !.manifest = "none"], [Good EXCEPT !.version = 2, !.planes = {}],
     [Good EXCEPT !.valid = FALSE], [Good EXCEPT !.valid = FALSE, !.pdp = "unix"],
     [Good EXCEPT !.manifest = "broken"],
     [Good EXCEPT !.manifest = "mode"], [Good EXCEPT !.manifest = "invalid"],
     [Good EXCEPT !.pii = "invalid"], [Good EXCEPT !.secrets = FALSE, !.version = 2]}

MCHashing == {2}

\* A PDP behind a unix socket.
UdsOptions == {[Good EXCEPT !.pdp = "unix", !.manifest = "none", !.planes = {"fetch"}]}
=============================================================================
