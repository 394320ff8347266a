-------------------------------- MODULE LanNames --------------------------------
(***************************************************************************)
(* The numbers of the LANs: server/uml_cloonix_switch/src/lan_to_name.c,   *)
(* an open-addressing table without tombstones, and its two users in       *)
(* endp_mngt.c, which keep the number they were given in the slots of the  *)
(* endpoints.  The rest of the server turns such a number back into a name *)
(* (lan_get_with_num) long after it was given.                             *)
(*                                                                         *)
(* The hash of a name is a constant: any function into the indices.        *)
(***************************************************************************)
EXTENDS Integers, FiniteSets

CONSTANTS Name,        \* the names of LANs
          User,        \* the slots of endpoints
          MaxLan,      \* MAX_LAN: the indices are 1 .. MAX_LAN - 1
          Hash,        \* get_hash_of_id
          NoName

Index == 1..(MaxLan - 1)

ASSUME LanNamesAssumption ==
  /\ IsFiniteSet(User)
  /\ MaxLan \in Nat /\ MaxLan > 1
  /\ Hash \in [Name -> Index]
  /\ NoName \notin Name

VARIABLES
  tab_elems,           \* index -> the name that has it, and its users
  glob_total_elems,
  lan_attached,        \* slot -> the number it keeps, and the LAN it is of
  layout,              \* the names layout_topo.c shows
  kout                 \* whether the server has left through KOUT

names_vars == <<tab_elems, glob_total_elems, lan_attached, layout, kout>>

Elem == [name : Name \cup {NoName}, nb_users : Nat]
NoElem == [name |-> NoName, nb_users |-> 0]
KeptNumber == [lan_num : Index \cup {0}, lan : Name \cup {NoName}]
NoNumber == [lan_num |-> 0, lan |-> NoName]

\* The table holds names with their users, and each slot a number or 0.
NamesTypeOK ==
  /\ tab_elems \in [Index -> Elem]
  /\ glob_total_elems \in 0..MaxLan
  /\ lan_attached \in [User -> KeptNumber]
  /\ layout \subseteq Name
  /\ kout \in BOOLEAN

NamesInit ==
  /\ tab_elems = [i \in Index |-> NoElem]
  /\ glob_total_elems = 0
  /\ lan_attached = [u \in User |-> NoNumber]
  /\ layout = {}
  /\ kout = FALSE
-----------------------------------------------------------------------------
\* The index that is looked at after k others: it wraps to 1, not to 0.
Probe(n, k) == (((Hash[n] - 1) + k) % (MaxLan - 1)) + 1

\* The first index from the hash of n that is in T, or 0.
FirstProbe(n, T) ==
  LET K == {k \in 0..(MaxLan - 2) : Probe(n, k) \in T}
  IN  IF K = {} THEN 0 ELSE Probe(n, CHOOSE k \in K : \A j \in K : k <= j)

\* Mutant: the search ends at the first empty element.
FindElem_StopsAtHole(n) ==
  LET idx == FirstProbe(n, {i \in Index : tab_elems[i].name \in {n, NoName}})
  IN  IF idx # 0 /\ tab_elems[idx].name = n THEN idx ELSE 0

\* find_elem_with_name goes through the whole table: names that were deleted
\* leave holes between the hash of a name and its index.
FindElem(n) == FirstProbe(n, {i \in Index : tab_elems[i].name = n})

\* find_free_idx_for_name
FindFree(n) == FirstProbe(n, {i \in Index : tab_elems[i].name = NoName})

\* lan_add_name for a name the table has not: KOUT when there is no room.
AddNewName(u, n) ==
  LET idx == FindFree(n)
  IN  IF idx = 0
      THEN /\ kout' = TRUE
           /\ UNCHANGED <<tab_elems, glob_total_elems, lan_attached, layout>>
      ELSE /\ tab_elems' = [tab_elems EXCEPT ![idx] = [name |-> n, nb_users |-> 1]]
           /\ glob_total_elems' = glob_total_elems + 1
           /\ kout' = (glob_total_elems + 1 >= MaxLan)
           /\ layout' = layout \cup {n}
           /\ lan_attached' = [lan_attached EXCEPT ![u] = [lan_num |-> idx, lan |-> n]]

\* endp_mngt_add_attached_lan with lan_add_name
AddAttachedLan(u, n) ==
  LET idx == FindElem(n)
  IN  /\ ~kout
      /\ lan_attached[u].lan_num = 0
      /\ IF idx = 0 THEN AddNewName(u, n)
         ELSE /\ tab_elems' = [tab_elems EXCEPT ![idx].nb_users = @ + 1]
              /\ lan_attached' = [lan_attached EXCEPT ![u] = [lan_num |-> idx, lan |-> n]]
              /\ UNCHANGED <<glob_total_elems, layout, kout>>

\* Mutant: the last user but one frees the element.
LastUser_Early(idx) == tab_elems[idx].nb_users <= 2

LastUser(idx) == tab_elems[idx].nb_users = 1

TotalLeft(idx) == IF LastUser(idx) THEN glob_total_elems - 1 ELSE glob_total_elems

LayoutLeft(n, idx) == IF LastUser(idx) THEN layout \ {n} ELSE layout

\* lan_del_name for a name that has the index idx.
LanDelName(n, idx) ==
  /\ tab_elems' = [tab_elems EXCEPT ![idx] =
       IF LastUser(idx) THEN NoElem ELSE [name |-> n, nb_users |-> @.nb_users - 1]]
  /\ glob_total_elems' = TotalLeft(idx)
  /\ layout' = LayoutLeft(n, idx)
  /\ kout' = (tab_elems[idx].nb_users <= 0 \/ TotalLeft(idx) < 0)

\* endp_mngt_del_attached_lan with lan_del_name: the slot keeps its number when
\* the table gives another one.
DelAttachedLan(u) ==
  LET n == lan_attached[u].lan
      idx == FindElem(n)
  IN  /\ ~kout
      /\ lan_attached[u].lan_num # 0
      /\ IF idx # 0 THEN LanDelName(n, idx)
         ELSE UNCHANGED <<tab_elems, glob_total_elems, layout, kout>>
      /\ lan_attached' = IF lan_attached[u].lan_num # idx THEN lan_attached
                         ELSE [lan_attached EXCEPT ![u] = NoNumber]

NamesNext == \E u \in User : DelAttachedLan(u) \/ \E n \in Name : AddAttachedLan(u, n)

NamesSpec == NamesInit /\ [][NamesNext]_names_vars
-----------------------------------------------------------------------------
(* Properties.                                                               *)

\* layout_topo.c shows the LANs of the table.
LayoutAgrees == layout = {tab_elems[i].name : i \in Index} \ {NoName}

\* A name has one index, and an element a name just while it has users.
NamesUnique ==
  \A i, j \in Index :
    tab_elems[i].name # NoName /\ tab_elems[i].name = tab_elems[j].name => i = j
NamedIffUsed == \A i \in Index : tab_elems[i].name = NoName <=> tab_elems[i].nb_users = 0

\* The two counters count the slots and the names.
HoldersOf(i) == {u \in User : lan_attached[u].lan_num = i}
UsersExact == \A i \in Index : tab_elems[i].nb_users = Cardinality(HoldersOf(i))
Named == {i \in Index : tab_elems[i].name # NoName}
TotalExact == glob_total_elems = Cardinality(Named)

\* A slot has a LAN just while it has a number, and it is the LAN of the number.
SlotNamed ==
  \A u \in User :
    IF lan_attached[u].lan_num = 0 THEN lan_attached[u].lan = NoName
    ELSE /\ lan_attached[u].lan # NoName
         /\ tab_elems[lan_attached[u].lan_num].name = lan_attached[u].lan

\* The server leaves only for want of an index.
KoutWhenFull == kout => \A i \in Index : tab_elems[i].nb_users > 0

\* The inductive invariant.
NamesInv ==
  /\ NamesTypeOK /\ LayoutAgrees /\ NamesUnique /\ NamedIffUsed
  /\ UsersExact /\ TotalExact /\ SlotNamed /\ KoutWhenFull

\* A number kept in a slot stands for the LAN it was given for as long as the
\* slot keeps it: lan_get_with_num and lan_get_with_name agree on it.  The server
\* leaves only for want of an index, when all have users: no other KOUT of
\* lan_to_name.c is reached.
NumberStands ==
  /\ NamesTypeOK
  /\ LayoutAgrees
  /\ KoutWhenFull
  /\ \A u \in User : lan_attached[u].lan_num # 0 =>
       /\ tab_elems[lan_attached[u].lan_num].name = lan_attached[u].lan
       /\ FindElem(lan_attached[u].lan) = lan_attached[u].lan_num

\* lan_to_name.c implements LanUsers: a LAN's users are the slots that keep the
\* number the table finds for its name.
NameUsers(n) == {u \in User : lan_attached[u].lan_num # 0 /\ lan_attached[u].lan_num = FindElem(n)}
Promise == INSTANCE LanUsers WITH users <- [n \in Name |-> NameUsers(n)]
ImplementsUsers == Promise!Spec
================================================================================
