------------------------------- MODULE Peeling -------------------------------
(***************************************************************************)
(* Abstract specification of IBLT::listEntries: as long as an entry has a  *)
(* cell to itself it may be listed and taken out, in any order; when none  *)
(* has, the answer says whether none is left.  Iblt implements it.         *)
(***************************************************************************)
EXTENDS Listing

VARIABLES cells,     \* where each transaction has its cells
          counts,    \* the table that is listed
          positives, negatives,  \* the entries listed so far, by their sign
          outcome    \* what listEntries returns: <<>> until it does

peelingVars == <<cells, counts, positives, negatives, outcome>>

Left == Entries(counts) \ (positives \cup negatives)

HasCellAlone(k) == \E c \in cells[k] : \A j \in Left \ {k} : c \notin cells[j]

PeelingInit == positives = {} /\ negatives = {} /\ outcome = <<>>

Peel(k) ==
  /\ outcome = <<>> /\ HasCellAlone(k)
  /\ IF counts[k] = 1
       THEN positives' = positives \cup {k} /\ UNCHANGED negatives
       ELSE negatives' = negatives \cup {k} /\ UNCHANGED positives
  /\ UNCHANGED <<cells, counts, outcome>>

EndListing ==
  /\ outcome = <<>> /\ \A k \in Left : ~ HasCellAlone(k)
  /\ outcome' = <<Left = {}>>
  /\ UNCHANGED <<cells, counts, positives, negatives>>

PeelingNext == (\E k \in Left : Peel(k)) \/ EndListing

PeelingSpec == PeelingInit /\ [][PeelingNext]_peelingVars

\* Whatever the order, what is listed in the end is what Graphene reckons
\* with, and the answer says whether that was all.
ListsAllButTheCore ==
  outcome # <<>> =>
    /\ positives = Positive(cells, counts)
    /\ negatives = Negative(cells, counts)
    /\ outcome = <<AllListed(cells, counts)>>
=============================================================================
