--------------------------- MODULE MCRegistration ---------------------------
(* Instance of Registration for TLC: two paths, one of them below a        *)
(* directory that somebody may ignore.                                     *)
EXTENDS Registration

CONSTANTS a, b

MCRequests == {{a}, {b}, {a, b}}
MCManifests == {{}, {a}, {b}}
MCRules == {<<a, "show">>, <<b, "dir">>}
MCNested == {NoRules, [NoRules EXCEPT ![b] = "show"]}
=============================================================================
