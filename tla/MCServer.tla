------------------------------ MODULE MCServer ------------------------------
(***************************************************************************)
(* A server with one or two handlers, two sellers and three printed texts, *)
(* two of which differ by white space that trim() removes, and the empty.  *)
(***************************************************************************)
EXTENDS Server, TLC

CONSTANTS boss, s1, s2, q1, q2, r1, r2

MCAccount == {boss, s1, s2}
MCSellers == {s1, s2}
MCNoBuyer == {}
\* A seller that buys, too, and is no admin.
MCSellerBuys == {s1}
MCOneReq == {q1}
MCOneHandler == {r1}
MCTwoHandlers == {r1, r2}
\* Handlers are told apart by what they do only.
MCHandlerSymmetry == Permutations(MCTwoHandlers)

MCTexts == {"", "a", "a ", "b"}
MCTrim == [t \in MCTexts |-> IF t = "a " THEN "a" ELSE t]

Only(result) == [result |-> result, stdout |-> Absent, rest |-> Absent]
Parts(stdout, rest) == [result |-> Absent, stdout |-> stdout, rest |-> rest]

MCRest == {"stderr"}
\* What client.ts sends, for two programs.
MCParts == {Parts("", Absent), Parts("a", Absent)}
\* Texts that trimming makes equal, and a body of each shape.
MCBodies ==
    {Parts("", Absent), Parts("a", Absent), Parts("a ", "stderr"), Parts(Absent, "stderr"),
     Only("a"), Only(""), [result |-> "a ", stdout |-> "a", rest |-> Absent]}
\* A body in parts, a string, and a body with both, which do not say the same.
MCMixed == {Parts("a ", "stderr"), Only("b"), [result |-> "b", stdout |-> "a", rest |-> Absent]}
MCPrice == {10}
\* Prices whose rounding differs, one no audit of which the pool can pay, and one the
\* constructor refuses.
MCPrices == {0, 1, 7, 10, 90}
=============================================================================
