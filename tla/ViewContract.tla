---------------------------- MODULE ViewContract ----------------------------
(***************************************************************************)
(* What NumPy promises about memory, and anionpy's own documentation        *)
(* repeats: every array looks at a region of memory through a window, a     *)
(* view looks at the region of its parent, anything else at a region of its *)
(* own; an array keeps its region and its window for life; a write changes  *)
(* cells of the window it goes through, and nothing else.  There are no     *)
(* reference counts, bases, names or detached buffers here.                 *)
(***************************************************************************)
EXTENDS Integers, Sequences

CONSTANTS Handles, Regions, NoRegion

VARIABLES
    region,  \* the region of each array, NoRegion for one that does not exist
    win,     \* the cell of each of its elements
    data     \* the contents of the regions in use

cvars == <<region, win, data>>

Exists(h) == region[h] # NoRegion
Cells(h) == {win[h][i] : i \in DOMAIN win[h]}
Unused(r) == \A h \in Handles : region[h] # r

CInit ==
    /\ region = [h \in Handles |-> NoRegion]
    /\ win = [h \in Handles |-> <<>>]
    /\ data = [r \in Regions |-> <<>>]

\* The arrays of H appear on region r; the arrays that exist stay as they are.
Appear(H, r) ==
    /\ \A h \in H : /\ ~Exists(h) /\ region'[h] = r
                    /\ \A i \in DOMAIN win'[h] : win'[h][i] \in DOMAIN data'[r]
    /\ \A h \in Handles \ H : region'[h] = region[h] /\ win'[h] = win[h]
    /\ \A q \in Regions \ {r} : data'[q] = data[q]

\* An array with memory of its own (and, for a reshape that copied, its base).
Fresh ==
    \E H \in SUBSET Handles, r \in Regions :
        /\ H # {} /\ Unused(r)
        /\ Appear(H, r)

\* A view of g: the region of g, cells of g, no element changed.
ViewOf(g) ==
    \E h \in Handles :
        /\ Exists(g)
        /\ Appear({h}, region[g])
        /\ \A i \in DOMAIN win'[h] : win'[h][i] \in Cells(g)
        /\ data' = data

\* A write through g changes cells of g only.
WriteVia(g) ==
    /\ Exists(g)
    /\ UNCHANGED <<region, win>>
    /\ \A q \in Regions \ {region[g]} : data'[q] = data[q]
    /\ DOMAIN data'[region[g]] = DOMAIN data[region[g]]
    /\ \A c \in DOMAIN data[region[g]] \ Cells(g) :
          data'[region[g]][c] = data[region[g]][c]

\* Arrays nobody refers to disappear; a region goes with its last array.
Disappear ==
    \E H \in SUBSET Handles :
        /\ \A h \in Handles : IF h \in H
                              THEN region'[h] = NoRegion /\ win'[h] = <<>>
                              ELSE region'[h] = region[h] /\ win'[h] = win[h]
        /\ \A r \in Regions : data'[r] \in {data[r], <<>>}
        /\ \A h \in Handles \ H : Exists(h) => data'[region[h]] = data[region[h]]

CNext ==
    \/ Fresh
    \/ \E g \in Handles : ViewOf(g) \/ WriteVia(g)
    \/ Disappear

Contract == CInit /\ [][CNext]_cvars
=============================================================================
