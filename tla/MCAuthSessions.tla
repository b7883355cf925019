--------------------------- MODULE MCAuthSessions ---------------------------
(* Instances of AuthSessions for TLC. *)
EXTENDS AuthSessions, TLC

CONSTANTS r1, r2, s1, s2, u1

OneRequest == {r1}
TwoRequests == {r1, r2}
OneSession == {s1}
TwoSessions == {s1, s2}
OneUser == {u1}
SameUser == [s \in Sessions |-> u1]
TwoTokens == 1..2
ThreeTokens == 1..3

AllCalls == {"login", "refresh", "logout", "logoutAll"}
RefreshOnly == {"login", "refresh"}

Symmetric == Permutations(Requests) \cup Permutations(Sessions)
=============================================================================
