------------------------------ MODULE MCActivity ------------------------------
(* Small instances of Activity for TLC.                                    *)
EXTENDS Activity

\* Registration opens at 0 and closes at 1, the activity runs from 2 to 3.
MCSchedules == {[open |-> 0, close |-> 1, start |-> 2, end |-> 3]}
=============================================================================
