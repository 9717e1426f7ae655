------------------------------ MODULE MCListings ------------------------------
EXTENDS Listings

CONSTANTS L1, L2
MCLinks == {L1, L2}
Sym == Permutations(MCLinks)

\* A side view and a top view with nothing constructed on it.
Side == [eyelets |-> 7, panels |-> 4, outsole |-> 300, heel |-> "block", angle |-> 500,
         logo |-> 400, kind |-> 1, label |-> 0, colour |-> 100, smooth |-> 300,
         view |-> "lateral", look |-> 1]
Top == [Side EXCEPT !.eyelets = 0, !.panels = 0, !.outsole = 600, !.view = "top", !.look = 2]

MCReferences == <<Top, Side>>

\* Three photographs of its own that score well, but for the embedding and the
\* correspondence: it is over the gate only by what lifts its lower bound.
Genuine ==
    [ photos |-> <<Top, Side, Side>>, footwear |-> TRUE,
      text |-> 950, glob |-> 810, parts |-> 950, geometry |-> 940, corr |-> "weak",
      material |-> 900, cross |-> 900, missing |-> 0,
      construction |-> 900, labels |-> 820, logos |-> 840, materials |-> 850,
      source |-> 550, provenance |-> 480, views |-> 700,
      words |-> FALSE, family |-> "RETAIL", link |-> "ok", cheap |-> FALSE, gaps |-> FALSE,
      seller |-> 1, families |-> {1} ]

\* A bag with one of those photographs at another shop, which the table says nothing of;
\* a dealer's replica that scores as the item and does not say that it is one.
Bag == [Genuine EXCEPT !.footwear = FALSE, !.seller = 2, !.families = {1, 2}]
Dealers == [Genuine EXCEPT !.family = "REPLICA", !.families = {4}]

\* The same item in two photographs, and a piece of evidence is missing.
Spare == [Genuine EXCEPT !.photos = <<Top, Side>>, !.gaps = TRUE, !.seller = 3, !.families = {5}]

MCSays == [genuine |-> Genuine, bag |-> Bag, dealers |-> Dealers,
           spare |-> Spare]
MCOffers == DOMAIN MCSays
===============================================================================
