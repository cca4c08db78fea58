------------------------------ MODULE Library ------------------------------
(***************************************************************************)
(* Two parts of src/lib that share nothing, the lists and vsprintf, side   *)
(* by side.  A call of vsprintf is explored beside the empty lists only.   *)
(***************************************************************************)
EXTENDS List, Format

LibraryInit == Init /\ FormatInit

LibraryNext ==
    \/ stage = "idle" /\ Next /\ UNCHANGED formatVars
    \/ (\A l \in Lists : ListEmpty(l)) /\ FormatNext /\ UNCHANGED vars

LibrarySpec == LibraryInit /\ [][LibraryNext]_<<vars, formatVars>>

=============================================================================
