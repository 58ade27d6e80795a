---------------------------- MODULE MC_CrawlLoop ----------------------------
(***************************************************************************)
(* Small instances of CrawlLoop for TLC.  Page a links to b and c, b and c *)
(* to each other, c may redirect to b; a domain may have several origins   *)
(* ("www." or not).                                                        *)
(***************************************************************************)
EXTENDS CrawlLoop, TLC

CONSTANTS a, b, c, d1, d2, o1, o2, o3

OneSite == [u \in Url |-> d1]
TwoSites == a :> d1 @@ b :> d1 @@ c :> d2
OwnOrigins == a :> o1 @@ b :> o2 @@ c :> o3
SharedOrigin == a :> o1 @@ b :> o2 @@ c :> o2
OnePerSite == a :> o1 @@ b :> o1 @@ c :> o2
AllLinked == a :> {b, c} @@ b :> {c} @@ c :> {b}
Nowhere == [u \in Url |-> {}]
CToB == a :> {} @@ b :> {} @@ c :> {b}

SlotSymmetry == Permutations(Chain) \cup Permutations(Req)
=============================================================================
