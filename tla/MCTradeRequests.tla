--------------------------- MODULE MCTradeRequests ---------------------------
(* Small instance of TradeRequests for TLC. *)
EXTENDS TradeRequests

CONSTANTS r1, r2

Rule(name, title) == [name |-> name, title |-> title]
SomePlans == {<<>>, <<Rule("stop", "clean"), Rule("trend", "hidden")>>, <<Rule("hope", "open")>>}

Result(status, reason) == [status |-> status, reason |-> reason]
\* Fewer results than rules, more, reasons that hide a phrase or show one.
SomeReplies ==
  NoDraft \cup
  {[other |-> "hidden", results |-> <<Result("followed", "clean")>>],
   [other |-> "clean", results |-> <<Result("followed", "blank"), Result("followed", "clean"),
                                     Result("followed", "open")>>],
   [other |-> "clean", results |-> <<Result("followed", "hidden")>>],
   [other |-> "clean", results |-> <<Result("not_followed", "clean"), Result("followed", "clean"),
                                     Result("followed", "clean")>>]}
=============================================================================
