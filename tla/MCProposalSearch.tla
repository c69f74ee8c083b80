-------------------------- MODULE MCProposalSearch --------------------------
(***************************************************************************)
(* A small instance of ProposalSearch: three markets of one or two events, *)
(* each listed in any of the ways of Listings, or the third not at all;    *)
(* and two events of two markets, with a choice of prices.                 *)
(***************************************************************************)
EXTENDS ProposalSearch

Asks(entity, template) == [entity |-> entity, template |-> template]

Listing(shape, question, bid, ask, hours) ==
  [shape |-> shape, question |-> question, bid |-> bid, ask |-> ask, hours |-> hours]

\* Cheap, fair, dear; and the ways to be left out.
Listings ==
  {Listing("pair", question, price, price + 2, 24) :
     question \in {Asks("a", "win"), Asks("b", "win"), Asks("c", "win"), Asks("b", "finish first")},
     price \in {30, 45, 60}}
  \cup {Listing(shape, Asks("b", "win"), 60, 62, 24) : shape \in {"inactive", "alone", "crowd", "odd"}}
  \cup {Listing("pair", Null, 60, 62, 24), Listing("pair", Asks("c", "win"), 60, 65, 24),
        Listing("pair", Asks("c", "win"), Null, 3, 24), Listing("pair", Asks("c", "win"), 30, 32, 3),
        Listing("pair", Asks("c", "win"), 30, 32, Null)}

Outcomes(shape) ==
  CASE shape = "alone" -> {"yes"}
    [] shape = "crowd" -> {"yes", "no", "other"}
    [] shape = "odd" -> {"yes", "other"}
    [] OTHER -> {"yes", "no"}

RowsFor(market, complex, listing) ==
  {[market |-> market, contract |-> <<market, outcome>>, outcome |-> outcome,
    complex |-> complex, active |-> listing.shape # "inactive", question |-> listing.question,
    bid |-> listing.bid, ask |-> listing.ask, hours |-> listing.hours] :
     outcome \in Outcomes(listing.shape)}

Priced(entity, price) == Listing("pair", Asks(entity, "win"), price, price + 2, 24)

TwoEvents ==
  {RowsFor(1, "k", Priced("a", p)) \cup RowsFor(2, "k", Priced("b", q))
     \cup RowsFor(3, "m", Priced("a", r)) \cup RowsFor(4, "m", Priced("b", s)) :
     p \in {30, 45, 60}, q \in {30, 45, 60}, r \in {30, 45, 60}, s \in {30, 45, 60}}

SomeBoards ==
  TwoEvents \cup
  {RowsFor(1, "k", one) \cup RowsFor(2, "k", two) \cup third :
     one \in Listings, two \in Listings,
     third \in {{}} \cup {RowsFor(3, complex, three) : complex \in {"k", "m"}, three \in Listings}}
=============================================================================
