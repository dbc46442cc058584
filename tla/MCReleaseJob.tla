---------------------------- MODULE MCReleaseJob ----------------------------
(***************************************************************************)
(* c1, c2 and c3 carry version 1.0.0, c4 the next one.                     *)
(***************************************************************************)
EXTENDS ReleaseJob, TLC

CONSTANTS c1, c2, c3, c4

MCVersionOf == [c \in Commits |-> IF c = c4 THEN "1.1.0" ELSE "1.0.0"]

\* The tag of 1.0.0 is moved over three commits.
MovedTag == {"1.0.0"} \X {c1, c2, c3}

\* Two releases, the second tag on its own commit or on that of the first.
TwoTags == {<<"1.0.0", c1>>, <<"1.1.0", c1>>, <<"1.1.0", c4>>}
=============================================================================
