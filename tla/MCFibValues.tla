---------------------------- MODULE MCFibValues ----------------------------
(***************************************************************************)
(* Small instances of FibValues for TLC.  The texts: "7" and "07" are two  *)
(* fields for one number, "3x" is a number to parseInt and not to          *)
(* PostgreSQL, "abc" is no number, "41" is refused.                        *)
(***************************************************************************)
EXTENDS FibValues, TLC

AllTexts == {"7", "07", "3x", "abc", "41"}
AllNumeric == {"7", "07", "3x", "41"}
AllValue == ("7" :> 7) @@ ("07" :> 7) @@ ("3x" :> 3) @@ ("41" :> 41)
AllPgInt == {"7", "07", "41"}

SomeTexts == {"7", "abc"}
JustSeven == {"7"}
SomeValue == "7" :> 7

ServerSymmetry == Permutations(Servers)
=============================================================================
