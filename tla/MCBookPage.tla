----------------------------- MODULE MCBookPage -----------------------------
(***************************************************************************)
(* Instances of BookPage: the deployed versions of reviews and their       *)
(* timeouts, what the VirtualServices of bookinfo's networking directory   *)
(* make of them, and how long connections take.                            *)
(***************************************************************************)
EXTENDS BookPage, TLC

AllVersions == {"v1", "v2", "v3"}
AllRated == {"v2", "v3"}

(* The code's timeouts in half seconds, beside productpage's 6.            *)
AllTimeouts == ("v2" :> 20) @@ ("v3" :> 5)

(* The same order, red < productpage < delay < black, beside productpage's *)
(* 4: for the runs in which the ages of many calls multiply.               *)
ShortTimeouts == ("v2" :> 6) @@ ("v3" :> 2)

(* No VirtualService: calls go to all versions, and nothing delays ratings.*)
NoRoutes == {AllVersions}
NoDelay == {0}

(* all-v1, test-v2, v3, 50-v3, 80-20 and v2-v3; without and with test-delay.*)
VirtualServices == (SUBSET AllVersions) \ {{}, AllVersions}
FaultDelays == {0, 5}

(* Connections take no time at all; or up to one tick, with which the red  *)
(* stars' limits together (3) are still below productpage's 4, or up to 4, *)
(* with which they are not (2 + 2) and no limit is out of reach.           *)
NoLag == {0}
Lagging == {1, 4}

AllKinds == AnswerKinds
GoodKinds == {"stars", "error"}
=============================================================================
