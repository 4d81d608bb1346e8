--------------------------- MODULE Dialogs_proofs ----------------------------
(***************************************************************************)
(* Theorems of Dialogs, for any number of things, roles, rows, openings    *)
(* and answers.                                                            *)
(*                                                                         *)
(* DInv holds until the person is hasty.  Every row has its own number, by *)
(* which the end of a fading finds it (Numbered), and a row that fades or  *)
(* has faded was touched (FadesOK).  In the dialog of members the array is *)
(* that of the rows that are shown, whatever is still on its way; in those *)
(* of roles it is once the answer is there, and the counts are those of    *)
(* the marks (MembersOK, AssigningOK); the others post their rows          *)
(* (PostingOK).  Kept says of what was not touched that it is as it came.  *)
(***************************************************************************)
EXTENDS Dialogs, Positions_proofs

RowShape == [id : Things, n : Nat, active : SUBSET Roles, empty : BOOLEAN,
             look : {"shown", "fading", "faded"}, offers : BOOLEAN, filtered : BOOLEAN]
Entry == [id : Things, role : Roles]

DialogTypes ==
    /\ kind \in Kinds /\ open \in BOOLEAN /\ late \in BOOLEAN /\ offered \in BOOLEAN
    /\ answers \in Seq(Listings \cup {None})
    /\ list \in Seq(Entry)
    /\ count \in [Things -> Int \cup {None, NaN}]
    /\ rows \in Seq(RowShape) /\ serial \in Nat
    /\ fades \subseteq Nat /\ row \in Nat \cup {None}
    /\ touched \subseteq Things

\* Rows have numbers from a to b, each its own, and one row for each id.
Numbered(rs, a, b) ==
    /\ \A i \in DOMAIN rs : a <= rs[i].n /\ rs[i].n < b
    /\ \A i, j \in DOMAIN rs : rs[i].n = rs[j].n => i = j
IdsOnce(s) == \A i, j \in DOMAIN s : s[i].id = s[j].id => i = j

NumbersOK ==
    /\ Numbered(rows, 0, serial)
    /\ \A n \in fades : n < serial
    /\ row # None => row < serial
FadesOK ==
    \A i \in DOMAIN rows :
       /\ rows[i].n \in fades \cup {row} => rows[i].look # "shown"
       /\ rows[i].look # "shown" =>
             /\ rows[i].id \in touched
             /\ kind # "members" => rows[i].look = "fading" /\ rows[i].n = row /\ row \in fades

Has(t, x) == \E k \in DOMAIN list : list[k].id = t /\ list[k].role = x
Shows(t, x) == \E i \in DOMAIN rows : rows[i].look = "shown" /\ rows[i].id = t
                                      /\ x \in RolesIn(i)
Agree == \A t \in Things, x \in Roles : Has(t, x) <=> Shows(t, x)
Posts(t, x) == IF kind \in Posting THEN \E i \in DOMAIN rows : rows[i].id = t ELSE Has(t, x)
Kept == listed # None => \A t \in DOMAIN listed \ touched, x \in Roles :
                            Posts(t, x) <=> x \in listed[t]

MembersOK ==
    /\ IdsOnce(rows) /\ IdsOnce(list) /\ Agree
    /\ \A i \in DOMAIN rows : rows[i].active = {} => rows[i].empty
    /\ answers # <<>> \/ ~open =>
          \A i \in DOMAIN rows : rows[i].look = "shown" /\ rows[i].active # {}
    /\ ~late => /\ ~open => answers = <<>> /\ rows = <<>>
                /\ answers # <<>> => /\ Len(answers) = 1
                                     /\ \A k \in DOMAIN list : list[k].id \in touched
                /\ answers = <<>> => Kept
AssigningOK ==
    /\ IdsOnce(rows)
    /\ \A i \in DOMAIN rows :
          rows[i].look = "shown" => count[rows[i].id] = Cardinality(RolesIn(i))
    /\ \A t \in Things :
          (\A i \in DOMAIN rows : rows[i].look = "shown" => rows[i].id # t) => count[t] = None
    /\ ~open => answers = <<>> /\ rows = <<>> /\ listed = None
    /\ answers # <<>> =>
          /\ Len(answers) = 1 /\ listed = None
          /\ \A i \in DOMAIN rows : rows[i].look = "shown" /\ rows[i].active = {}
    /\ open /\ answers = <<>> => Agree /\ Kept /\ offered
PostingOK ==
    /\ \A i \in DOMAIN rows : rows[i].active = {"listed"}
    /\ ~late /\ answers = <<>> => Kept
    /\ kind = "trusted" /\ answers # <<>> => listed = None
OffersOK ==
    /\ kind \notin Assigning => \A i \in DOMAIN rows : rows[i].offers
    /\ kind \in Assigning /\ listed # None => \A t \in DOMAIN listed : listed[t] \subseteq AppRoles
DInv ==
    /\ DialogTypes /\ NumbersOK /\ FadesOK /\ OffersOK
    /\ kind = "members" => MembersOK
    /\ kind \in Assigning /\ ~late => AssigningOK
    /\ kind \in Posting => PostingOK

-----------------------------------------------------------------------------
(* Kinds, listings and entries. *)

\* The dialogs, and what may be assigned in each.
LEMMA KindIs ==
    ASSUME DialogsAssumption, kind \in Kinds
    PROVE  /\ kind = "members" \/ kind \in Assigning \/ kind \in Posting
           /\ kind = "members" => kind \notin Assigning /\ kind \notin Posting
           /\ kind \in Assigning => kind # "members" /\ kind \notin Posting
                                    /\ (kind = "users" \/ kind = "organizations")
           /\ kind \in Posting => kind # "members" /\ kind \notin Assigning /\ Roles = {"listed"}
                                  /\ (kind = "administrators" \/ kind = "trusted")
           /\ kind = "members" => Roles = {"owner", "member"}
           /\ kind \in Assigning => Roles = AppRoles
           /\ IsFiniteSet(Roles)
<1>1. kind \in {"members", "users", "organizations", "administrators", "trusted"}
  BY DEF DialogsAssumption
<1>2. /\ kind = "members" => Roles = {"owner", "member"}
      /\ kind \in Assigning => Roles = AppRoles
      /\ kind \in Posting => Roles = {"listed"}
  BY <1>1 DEF Roles, Assigning, Posting
<1>3. IsFiniteSet({"owner", "member"}) /\ IsFiniteSet({"listed"})
  <2>1. IsFiniteSet({"listed"}) /\ IsFiniteSet({"owner"})
    BY FS_Singleton
  <2>2. IsFiniteSet({"owner"} \cup {"member"})
    BY <2>1, FS_AddElement
  <2>3. {"owner"} \cup {"member"} = {"owner", "member"}
    OBVIOUS
  <2> QED BY <2>1, <2>2, <2>3
<1>4. IsFiniteSet(Roles)
  BY <1>1, <1>2, <1>3 DEF DialogsAssumption, Assigning, Posting
<1> QED BY <1>1, <1>2, <1>4 DEF Assigning, Posting

LEMMA SameKind ==
    ASSUME kind' = kind
    PROVE  Roles' = Roles /\ Listings' = Listings /\ RowShape' = RowShape /\ Entry' = Entry
<1>1. Roles' = Roles
  BY DEF Roles
<1>2. Listings' = Listings
  BY DEF Listings, MembersSent, UsersSent, OrganizationsSent, AdministratorsSent, TrustedSent
<1> QED BY <1>1, <1>2 DEF RowShape, Entry

\* What the server sends: roles of some of the things.
LEMMA AssignedIs ==
    ASSUME NEW R, NEW l \in Assigned(R)
    PROVE  DOMAIN l \subseteq Things /\ \A t \in DOMAIN l : l[t] \in R
BY DEF Assigned

LEMMA ListingIs ==
    ASSUME DialogsAssumption, kind \in Kinds, NEW l \in Listings
    PROVE  /\ DOMAIN l \subseteq Things /\ IsFiniteSet(DOMAIN l)
           /\ \A t \in DOMAIN l : l[t] \subseteq Roles
           /\ kind = "members" => \A t \in DOMAIN l : l[t] = {"owner"} \/ l[t] = {"member"}
           /\ kind \in Posting => \A t \in DOMAIN l : l[t] = {"listed"}
<1>1. CASE kind = "members"
  <2>1. l \in Assigned({{"owner"}, {"member"}})
    BY <1>1 DEF Listings, MembersSent
  <2>2. DOMAIN l \subseteq Things /\ \A t \in DOMAIN l : l[t] \in {{"owner"}, {"member"}}
    BY <2>1, AssignedIs
  <2> QED BY <1>1, <2>2, KindIs, FS_Subset DEF DialogsAssumption
<1>2. CASE kind \in Assigning
  <2>1. l \in Assigned(SUBSET AppRoles)
    BY <1>2, KindIs DEF Listings, UsersSent, OrganizationsSent
  <2>2. DOMAIN l \subseteq Things /\ \A t \in DOMAIN l : l[t] \in SUBSET AppRoles
    BY <2>1, AssignedIs
  <2> QED BY <1>2, <2>2, KindIs, FS_Subset DEF DialogsAssumption
<1>3. CASE kind \in Posting
  <2>1. l \in Assigned({{"listed"}})
    BY <1>3, KindIs DEF Listings, AdministratorsSent, TrustedSent
  <2>2. DOMAIN l \subseteq Things /\ \A t \in DOMAIN l : l[t] \in {{"listed"}}
    BY <2>1, AssignedIs
  <2> QED BY <1>3, <2>2, KindIs, FS_Subset DEF DialogsAssumption
<1> QED BY <1>1, <1>2, <1>3, KindIs

\* The entries of a listing, in a sequence.
LEMMA EntriesAre ==
    ASSUME DialogsAssumption, kind \in Kinds,
           NEW l, DOMAIN l \subseteq Things, \A t \in DOMAIN l : l[t] \subseteq Roles
    PROVE  LET s == SetToSeq(Entries(l)) IN
           /\ s \in Seq(Entry)
           /\ \A k \in DOMAIN s : s[k].id \in DOMAIN l /\ s[k].role \in l[s[k].id]
           /\ \A t \in DOMAIN l : \A x \in l[t] :
                 \E k \in DOMAIN s : s[k].id = t /\ s[k].role = x
           /\ \A i, j \in DOMAIN s : s[i].id = s[j].id /\ s[i].role = s[j].role => i = j
<1> DEFINE D == DOMAIN l
           E == [id : D, role : Roles]
           f == [e \in E |-> <<e.id, e.role>>]
           s == SetToSeq(Entries(l))
<1>1. IsFiniteSet(D \X Roles)
  BY KindIs, FS_Subset, FS_Product DEF DialogsAssumption
<1>2. f \in Injection(E, D \X Roles)
  <2>1. f \in [E -> D \X Roles]
    OBVIOUS
  <2>2. ASSUME NEW a \in E, NEW b \in E, f[a] = f[b] PROVE a = b
    <3>1. a.id = b.id /\ a.role = b.role
      BY <2>2
    <3> QED BY <3>1
  <2> QED BY <2>1, <2>2 DEF Injection, IsInjective
<1>3. IsFiniteSet(E)
  BY <1>1, <1>2, FS_Injection
<1>4. Entries(l) \subseteq E /\ IsFiniteSet(Entries(l))
  <2>1. Entries(l) \in SUBSET E
    BY DEF Entries
  <2> QED BY <2>1, <1>3, FS_Subset
<1>5. EachOnce(s, Entries(l))
  BY <1>4, EachOnceSetToSeq
<1> HIDE DEF s, f
<1>6. /\ s \in Seq(Entries(l)) /\ DOMAIN s = 1..Len(s) /\ s \in [1..Len(s) -> Entries(l)]
      /\ \A e \in Entries(l) : \E i \in 1..Len(s) : s[i] = e
      /\ \A i, j \in 1..Len(s) : s[i] = s[j] => i = j
  BY <1>5, EachOnceGives
<1>7. \A e \in Entries(l) : e \in Entry /\ e.id \in D /\ e.role \in l[e.id]
  BY DEF Entries, Entry
<1>8. s \in Seq(Entry)
  BY <1>6, <1>7
<1>9. ASSUME NEW t \in D, NEW x \in l[t]
      PROVE  \E k \in DOMAIN s : s[k].id = t /\ s[k].role = x
  <2>1. [id |-> t, role |-> x] \in Entries(l)
    BY DEF Entries
  <2> QED BY <2>1, <1>6
<1>10. ASSUME NEW i \in DOMAIN s, NEW j \in DOMAIN s, s[i].id = s[j].id, s[i].role = s[j].role
       PROVE  i = j
  <2>1. s[i] \in E /\ s[j] \in E
    BY <1>4, <1>6
  <2>2. s[i] = s[j]
    BY <2>1, <1>10
  <2> QED BY <2>2, <1>6
<1>11. \A k \in DOMAIN s : s[k].id \in D /\ s[k].role \in l[s[k].id]
  BY <1>6, <1>7
<1> QED BY <1>8, <1>9, <1>10, <1>11 DEF s

-----------------------------------------------------------------------------
(* Rows in a sequence. *)

\* Positions that are selected, one for each.
LEMMA Picks ==
    ASSUME NEW S, NEW s \in Seq(S), NEW at, NEW r, r = SelectPositions(s, at)
    PROVE  /\ r \in Seq(S)
           /\ \E h \in [DOMAIN r -> DOMAIN s] :
                 /\ \A m \in DOMAIN r : h[m] \in at /\ r[m] = s[h[m]]
                 /\ \A m, k \in DOMAIN r : h[m] = h[k] => m = k
                 /\ \A i \in DOMAIN s : i \in at => \E m \in DOMAIN r : h[m] = i
<1>1. PICK h : Selected(S, s, at, Len(s), r, h)
  BY Selects
<1>2. r \in Seq(S) /\ Len(r) \in Nat /\ DOMAIN r = 1..Len(r) /\ DOMAIN s = 1..Len(s)
  BY <1>1 DEF Selected
<1>3. h \in [DOMAIN r -> DOMAIN s] /\ \A m \in DOMAIN r : h[m] \in at /\ r[m] = s[h[m]]
  BY <1>1, <1>2 DEF Selected
<1>4. ASSUME NEW m \in DOMAIN r, NEW k \in DOMAIN r, h[m] = h[k] PROVE m = k
  <2>1. h[m] \in Nat /\ m \in Nat /\ k \in Nat
    BY <1>2, <1>3
  <2>2. ~(m < k) /\ ~(k < m)
    BY <1>1, <1>2, <1>4, <2>1 DEF Selected
  <2> QED BY <2>1, <2>2
<1>5. \A i \in DOMAIN s : i \in at => \E m \in DOMAIN r : h[m] = i
  BY <1>1, <1>2 DEF Selected
<1> QED BY <1>2, <1>3, <1>4, <1>5

LEMMA WithoutIs ==
    ASSUME NEW S, list \in Seq(S), NEW R, NEW r, r = Without(R)
    PROVE  /\ r \in Seq(S)
           /\ \A m \in DOMAIN r : \E k \in DOMAIN list : r[m] = list[k] /\ list[k] \notin R
           /\ \A k \in DOMAIN list : list[k] \notin R => \E m \in DOMAIN r : r[m] = list[k]
           /\ IdsOnce(list) => IdsOnce(r)
<1> DEFINE at == {i \in DOMAIN list : list[i] \notin R}
<1>1. r = SelectPositions(list, at)
  BY DEF Without, Omit
<1>a. \A i : i \in at <=> i \in DOMAIN list /\ list[i] \notin R
  OBVIOUS
<1> HIDE DEF at
<1>2. r \in Seq(S)
  BY <1>1, Picks
<1>3. PICK h \in [DOMAIN r -> DOMAIN list] :
         /\ \A m \in DOMAIN r : h[m] \in at /\ r[m] = list[h[m]]
         /\ \A m, k \in DOMAIN r : h[m] = h[k] => m = k
         /\ \A i \in DOMAIN list : i \in at => \E m \in DOMAIN r : h[m] = i
  BY <1>1, Picks
<1>4. ASSUME IdsOnce(list) PROVE IdsOnce(r)
  BY <1>3, <1>4 DEF IdsOnce
<1> QED BY <1>2, <1>3, <1>4, <1>a

LEMMA Joined ==
    ASSUME NEW S, NEW a \in Seq(S), NEW b \in Seq(S), NEW r, r = a \o b
    PROVE  /\ r \in Seq(S) /\ Len(r) = Len(a) + Len(b)
           /\ \A i \in DOMAIN r :
                 \/ i \in DOMAIN a /\ r[i] = a[i]
                 \/ i > Len(a) /\ i - Len(a) \in DOMAIN b /\ r[i] = b[i - Len(a)]
           /\ \A i \in DOMAIN a : i \in DOMAIN r /\ r[i] = a[i]
           /\ \A j \in DOMAIN b : Len(a) + j \in DOMAIN r /\ r[Len(a) + j] = b[j]
<1>1. r \in Seq(S) /\ Len(r) = Len(a) + Len(b) /\ DOMAIN r = 1..(Len(a) + Len(b))
  OBVIOUS
<1>2. \A i \in 1..(Len(a) + Len(b)) : r[i] = IF i <= Len(a) THEN a[i] ELSE b[i - Len(a)]
  OBVIOUS
<1>3. DOMAIN a = 1..Len(a) /\ DOMAIN b = 1..Len(b) /\ Len(a) \in Nat /\ Len(b) \in Nat
  OBVIOUS
<1>4. \A i \in DOMAIN r : \/ i \in DOMAIN a /\ r[i] = a[i]
                          \/ i > Len(a) /\ i - Len(a) \in DOMAIN b /\ r[i] = b[i - Len(a)]
  BY <1>1, <1>2, <1>3
<1>5. \A i \in DOMAIN a : i \in DOMAIN r /\ r[i] = a[i]
  BY <1>1, <1>2, <1>3
<1>6. \A j \in DOMAIN b : Len(a) + j \in DOMAIN r /\ r[Len(a) + j] = b[j]
  BY <1>1, <1>2, <1>3
<1> QED BY <1>1, <1>4, <1>5, <1>6

\* Numbers that follow one another are different.
LEMMA NumberedJoined ==
    ASSUME NEW a \in Seq(RowShape), NEW b \in Seq(RowShape),
           NEW p \in Nat, NEW q \in Nat, NEW z \in Nat, p <= q, q <= z,
           \/ Numbered(a, p, q) /\ Numbered(b, q, z)
           \/ Numbered(b, p, q) /\ Numbered(a, q, z)
    PROVE  Numbered(a \o b, p, z)
<1> DEFINE r == a \o b
<1>1. /\ Len(a) \in Nat
      /\ \A i \in DOMAIN a : a[i].n \in Nat /\ i \in Nat
      /\ \A i \in DOMAIN b : b[i].n \in Nat /\ i \in Nat
  <2>1. \A x \in RowShape : x.n \in Nat
    BY DEF RowShape
  <2> QED BY <2>1
<1>2. PICK c : c = r
  OBVIOUS
<1>3. /\ c \in Seq(RowShape)
      /\ \A i \in DOMAIN c :
                 \/ i \in DOMAIN a /\ c[i] = a[i]
                 \/ i > Len(a) /\ i - Len(a) \in DOMAIN b /\ c[i] = b[i - Len(a)]
  BY <1>2, Joined
<1>4. \A i \in DOMAIN c : i \in Nat
  BY <1>3
<1>5. ASSUME NEW i \in DOMAIN c PROVE p <= c[i].n /\ c[i].n < z
  BY <1>1, <1>3, <1>5 DEF Numbered
<1>6. ASSUME NEW i \in DOMAIN c, NEW j \in DOMAIN c, c[i].n = c[j].n PROVE i = j
  <2>1. CASE i \in DOMAIN a /\ c[i] = a[i] /\ j \in DOMAIN a /\ c[j] = a[j]
    BY <2>1, <1>6 DEF Numbered
  <2>2. CASE /\ i - Len(a) \in DOMAIN b /\ c[i] = b[i - Len(a)]
             /\ j - Len(a) \in DOMAIN b /\ c[j] = b[j - Len(a)]
    <3>1. i - Len(a) = j - Len(a)
      BY <2>2, <1>6 DEF Numbered
    <3> QED BY <3>1, <1>1, <1>4
  <2>3. CASE i \in DOMAIN a /\ c[i] = a[i] /\ j - Len(a) \in DOMAIN b /\ c[j] = b[j - Len(a)]
    BY <2>3, <1>1, <1>6 DEF Numbered
  <2>4. CASE j \in DOMAIN a /\ c[j] = a[j] /\ i - Len(a) \in DOMAIN b /\ c[i] = b[i - Len(a)]
    BY <2>4, <1>1, <1>6 DEF Numbered
  <2> QED BY <1>3, <2>1, <2>2, <2>3, <2>4
<1>7. Numbered(c, p, z)
  BY <1>5, <1>6 DEF Numbered
<1> QED BY <1>2, <1>7

LEMMA IdsJoined ==
    ASSUME NEW S, NEW a \in Seq(S), NEW b \in Seq(S), IdsOnce(a), IdsOnce(b),
           \A i \in DOMAIN a, j \in DOMAIN b : a[i].id # b[j].id
    PROVE  IdsOnce(a \o b)
<1>1. PICK c : c = a \o b
  OBVIOUS
<1>2. /\ c \in Seq(S) /\ Len(a) \in Nat
      /\ \A i \in DOMAIN c :
                 \/ i \in DOMAIN a /\ c[i] = a[i]
                 \/ i > Len(a) /\ i - Len(a) \in DOMAIN b /\ c[i] = b[i - Len(a)]
  BY <1>1, Joined
<1>3. \A i \in DOMAIN c : i \in Nat
  BY <1>2
<1>6. ASSUME NEW i \in DOMAIN c, NEW j \in DOMAIN c, c[i].id = c[j].id PROVE i = j
  <2>1. CASE i \in DOMAIN a /\ c[i] = a[i] /\ j \in DOMAIN a /\ c[j] = a[j]
    BY <2>1, <1>6 DEF IdsOnce
  <2>2. CASE /\ i - Len(a) \in DOMAIN b /\ c[i] = b[i - Len(a)]
             /\ j - Len(a) \in DOMAIN b /\ c[j] = b[j - Len(a)]
    <3>1. i - Len(a) = j - Len(a)
      BY <2>2, <1>6 DEF IdsOnce
    <3> QED BY <3>1, <1>2, <1>3
  <2>3. CASE i \in DOMAIN a /\ c[i] = a[i] /\ j - Len(a) \in DOMAIN b /\ c[j] = b[j - Len(a)]
    BY <2>3, <1>6
  <2>4. CASE j \in DOMAIN a /\ c[j] = a[j] /\ i - Len(a) \in DOMAIN b /\ c[i] = b[i - Len(a)]
    BY <2>4, <1>6
  <2> QED BY <1>2, <2>1, <2>2, <2>3, <2>4
<1> QED BY <1>1, <1>6 DEF IdsOnce

\* New rows.
LEMMA MadeRows ==
    ASSUME NEW ids \in Seq(Things), NEW n \in Nat, NEW X \in SUBSET Roles,
           NEW r, r = MakeRows(ids, n, X)
    PROVE  /\ r \in Seq(RowShape) /\ Len(r) = Len(ids) /\ DOMAIN r = DOMAIN ids
           /\ Numbered(r, n, n + Len(ids))
           /\ \A i \in DOMAIN r : /\ r[i].id = ids[i] /\ r[i].active = X /\ ~r[i].empty
                                  /\ r[i].look = "shown" /\ r[i].n >= n /\ r[i].offers
           /\ IsInjective(ids) => IdsOnce(r)
<1>1. DOMAIN ids = 1..Len(ids) /\ Len(ids) \in Nat
  OBVIOUS
<1>2. DOMAIN r = 1..Len(ids) /\ \A i \in 1..Len(ids) : r[i] = Row(ids[i], n + i - 1, X, TRUE)
  BY DEF MakeRows
<1>3. \A i \in 1..Len(ids) : Row(ids[i], n + i - 1, X, TRUE) \in RowShape
  BY DEF Row, RowShape
<1>4. r \in [1..Len(ids) -> RowShape]
  BY <1>2, <1>3 DEF MakeRows
<1>5. r \in Seq(RowShape) /\ Len(r) = Len(ids)
  BY <1>1, <1>4
<1>6. \A i \in DOMAIN r : /\ r[i].id = ids[i] /\ r[i].active = X /\ ~r[i].empty
                          /\ r[i].look = "shown" /\ r[i].n = n + i - 1 /\ r[i].offers
  BY <1>2 DEF Row
<1>7. \A i \in DOMAIN r : i \in 1..Len(ids)
  BY <1>2
<1>8. Numbered(r, n, n + Len(ids))
  BY <1>1, <1>6, <1>7 DEF Numbered
<1>9. ASSUME IsInjective(ids) PROVE IdsOnce(r)
  BY <1>1, <1>2, <1>6, <1>9 DEF IdsOnce, IsInjective
<1>10. \A i \in DOMAIN r : r[i].n >= n
  BY <1>1, <1>6, <1>7
<1> QED BY <1>1, <1>2, <1>5, <1>6, <1>8, <1>9, <1>10

\* Each row is the first with its id, when there is one for each.
LEMMA FirstIs ==
    ASSUME NEW S, NEW rs \in Seq(S), IdsOnce(rs), NEW i \in DOMAIN rs
    PROVE  i = First(rs, rs[i].id)
<1> DEFINE P(k) == rs[k].id = rs[i].id /\ \A j \in 1..(k - 1) : rs[j].id # rs[i].id
<1>1. \A j \in 1..(i - 1) : j \in DOMAIN rs /\ j # i
  OBVIOUS
<1>2. P(i)
  BY <1>1 DEF IdsOnce
<1>3. \A k \in DOMAIN rs : P(k) => k = i
  BY DEF IdsOnce
<1>4. First(rs, rs[i].id) = CHOOSE k \in DOMAIN rs : P(k)
  BY DEF First
<1> HIDE DEF P
<1> QED BY <1>2, <1>3, <1>4

\* Roles are added to the row of each.
MarkedAs(r, rs, l) ==
    /\ r \in Seq(RowShape) /\ Len(r) = Len(rs) /\ DOMAIN r = DOMAIN rs
    /\ \A i \in DOMAIN rs :
          /\ r[i].id = rs[i].id /\ r[i].n = rs[i].n /\ r[i].empty = rs[i].empty
          /\ r[i].look = rs[i].look /\ r[i].offers = rs[i].offers
          /\ IdsOnce(rs) => r[i].active = IF rs[i].id \in DOMAIN l /\ rs[i].offers
                                          THEN rs[i].active \cup l[rs[i].id]
                                          ELSE rs[i].active
    /\ IdsOnce(rs) => IdsOnce(r)
    /\ \A a, b : Numbered(rs, a, b) => Numbered(r, a, b)
LEMMA Marked ==
    ASSUME NEW rs \in Seq(RowShape), NEW l, \A t \in DOMAIN l : l[t] \subseteq Roles,
           NEW r, r = MarkedIn(rs, l)
    PROVE  MarkedAs(r, rs, l)
<1>1. DOMAIN rs = 1..Len(rs) /\ Len(rs) \in Nat /\ \A i \in DOMAIN rs : rs[i] \in RowShape
  OBVIOUS
<1>2. DOMAIN r = DOMAIN rs
  BY DEF MarkedIn
<1>3. ASSUME NEW i \in DOMAIN rs
      PROVE  /\ r[i] \in RowShape
             /\ r[i].id = rs[i].id /\ r[i].n = rs[i].n /\ r[i].empty = rs[i].empty
             /\ r[i].look = rs[i].look /\ r[i].offers = rs[i].offers
             /\ IdsOnce(rs) => r[i].active = IF rs[i].id \in DOMAIN l /\ rs[i].offers
                                             THEN rs[i].active \cup l[rs[i].id]
                                             ELSE rs[i].active
  <2>1. IdsOnce(rs) => i = First(rs, rs[i].id)
    BY FirstIs
  <2>2. r[i] = IF rs[i].id \in DOMAIN l /\ i = First(rs, rs[i].id) /\ rs[i].offers
               THEN [rs[i] EXCEPT !.active = @ \cup l[rs[i].id]] ELSE rs[i]
    BY DEF MarkedIn
  <2> QED BY <1>1, <2>1, <2>2 DEF RowShape
<1>4. r \in [1..Len(rs) -> RowShape]
  BY <1>1, <1>2, <1>3 DEF MarkedIn
<1>5. r \in Seq(RowShape) /\ Len(r) = Len(rs)
  BY <1>1, <1>4
<1>6. IdsOnce(rs) => IdsOnce(r)
  BY <1>2, <1>3 DEF IdsOnce
<1>7. ASSUME NEW a, NEW b, Numbered(rs, a, b) PROVE Numbered(r, a, b)
  BY <1>2, <1>3, <1>7 DEF Numbered
<1> QED BY <1>2, <1>3, <1>5, <1>6, <1>7 DEF MarkedAs

-----------------------------------------------------------------------------
(* Opening and leaving. *)

\* Nothing fades that could be disturbed.
LEMMA AllShown ==
    ASSUME FadesOK, ~Waiting, kind # "members"
    PROVE  \A i \in DOMAIN rows : rows[i].look = "shown"
BY DEF FadesOK, Waiting, Numbers

\* Without rows.
LEMMA NoRows ==
    ASSUME DialogTypes, rows = <<>>
    PROVE  DOMAIN rows = {} /\ Numbered(rows, 0, serial) /\ IdsOnce(rows)
           /\ \A t, x : ~Shows(t, x)
<1>1. DOMAIN rows = {}
  OBVIOUS
<1> QED BY <1>1 DEF Numbered, IdsOnce, Shows

LEMMA NoEntries ==
    ASSUME DialogTypes, Agree, \A t, x : ~Shows(t, x)
    PROVE  DOMAIN list = {}
<1>1. \A k \in DOMAIN list : list[k] \in Entry
  BY DEF DialogTypes
<1>2. \A k \in DOMAIN list : /\ list[k].id \in Things /\ list[k].role \in Roles
                             /\ Has(list[k].id, list[k].role)
  BY <1>1 DEF Entry, Has
<1> QED BY <1>2 DEF Agree

LEMMA StepOpenAndAsk == ASSUME DialogsAssumption, DInv, OpenAndAsk PROVE DInv'
<1>1. /\ kind' = kind /\ list' = list /\ count' = count /\ rows' = rows /\ fades' = fades
      /\ row' = row /\ serial' = serial /\ listed' = listed /\ touched' = touched
      /\ late' = late /\ ~open /\ open' = TRUE /\ kind # "trusted" /\ offered' = offered
  BY DEF OpenAndAsk, OpenDialog
<1>2. PICK l \in Listings \cup {None} : answers' = Append(answers, l)
  BY DEF OpenAndAsk
<1>3. Roles' = Roles /\ Listings' = Listings /\ RowShape' = RowShape /\ Entry' = Entry
  BY <1>1, SameKind
<1>4. /\ answers' \in Seq(Listings \cup {None}) /\ answers' # <<>>
      /\ answers = <<>> => Len(answers') = 1
  BY <1>2 DEF DInv, DialogTypes
<1>5. DialogTypes'
  BY <1>1, <1>3, <1>4 DEF DInv, DialogTypes
<1>6. NumbersOK' /\ FadesOK' /\ OffersOK'
  BY <1>1 DEF DInv, NumbersOK, FadesOK, Numbered, OffersOK, Assigning
<1>7. ASSUME kind = "members" PROVE MembersOK'
  <2>1. MembersOK
    BY <1>7 DEF DInv
  <2>2. IdsOnce(rows)' /\ IdsOnce(list)' /\ Agree'
    BY <2>1, <1>1, <1>3 DEF MembersOK, IdsOnce, Agree, Has, Shows, RolesIn
  <2>3. ASSUME ~late PROVE answers = <<>> /\ DOMAIN list = {}
    <3>1. answers = <<>> /\ rows = <<>>
      BY <2>1, <2>3, <1>1 DEF MembersOK
    <3> QED BY <3>1, <2>1, NoRows, NoEntries DEF DInv, MembersOK
  <2>4. ASSUME ~late' PROVE Len(answers') = 1 /\ \A k \in DOMAIN list' : list'[k].id \in touched'
    BY <2>3, <2>4, <1>1, <1>4
  <2> QED BY <2>1, <2>2, <2>4, <1>1, <1>4 DEF MembersOK
<1>8. ASSUME kind \in Assigning, ~late PROVE AssigningOK'
  <2>1. AssigningOK
    BY <1>8 DEF DInv
  <2>2. answers = <<>> /\ DOMAIN rows = {}
    BY <2>1, <1>1, NoRows DEF AssigningOK, DInv
  <2>3. IdsOnce(rows)'
    BY <2>1, <1>1 DEF AssigningOK, IdsOnce
  <2> QED BY <2>1, <2>2, <2>3, <1>1, <1>4 DEF AssigningOK
<1>9. ASSUME kind \in Posting PROVE PostingOK'
  BY <1>1, <1>4, <1>9 DEF DInv, PostingOK
<1> QED BY <1>1, <1>5, <1>6, <1>7, <1>8, <1>9 DEF DInv, Assigning, Posting

\* Leaving the dialog, by the person or for an error.
LEMMA StepLeft ==
    ASSUME DialogsAssumption, DInv, Leave, kind' = kind, fades' = fades, row' = row,
           serial' = serial, offered' = offered, open' \in BOOLEAN, late' \in BOOLEAN, late => late',
           answers' \in Seq(Listings \cup {None}),
           ~late' /\ kind \notin Posting => answers' = <<>>,
           ~late' /\ kind \in Assigning => ~open'
    PROVE  DInv'
<1>1. rows' = <<>> /\ listed' = None /\ touched' = {}
  BY DEF Leave
<1>2. Roles' = Roles /\ Listings' = Listings /\ RowShape' = RowShape /\ Entry' = Entry
  BY SameKind
<1>3. list' \in Seq(Entry) /\ count' \in [Things -> Int \cup {None, NaN}]
  <2>1. /\ list' = list \/ list' = <<>>
        /\ count' = count \/ count' = [t \in Things |-> None]
    BY DEF Leave, LeaveMembers, LeaveUsers, LeaveOrganizations, LeaveAdministrators, LeaveTrusted
  <2>2. [t \in Things |-> None] \in [Things -> Int \cup {None, NaN}]
    OBVIOUS
  <2>3. list \in Seq(Entry) /\ count \in [Things -> Int \cup {None, NaN}]
    BY DEF DInv, DialogTypes
  <2>4. list' \in Seq(Entry)
    <3>1. <<>> \in Seq(Entry)
      OBVIOUS
    <3> QED BY <3>1, <2>1, <2>3
  <2>5. count' \in [Things -> Int \cup {None, NaN}]
    BY <2>1, <2>2, <2>3, Zenon
  <2> QED BY <2>4, <2>5
<1>4. DialogTypes'
  BY <1>1, <1>2, <1>3 DEF DInv, DialogTypes
<1>5. /\ DOMAIN rows' = {} /\ Numbered(rows, 0, serial)' /\ IdsOnce(rows)'
      /\ \A t, x : ~Shows(t, x)'
  BY <1>1 DEF Numbered, IdsOnce, Shows
<1>6. NumbersOK' /\ FadesOK' /\ OffersOK'
  BY <1>1, <1>5 DEF DInv, NumbersOK, FadesOK, OffersOK
<1>7. Kept'
  BY <1>1 DEF Kept
<1>8. ASSUME kind = "members" PROVE MembersOK'
  <2>1. list' = <<>>
    BY <1>8 DEF Leave, LeaveMembers, LeaveUsers, LeaveOrganizations, LeaveAdministrators,
                LeaveTrusted
  <2>2. DOMAIN list' = {}
    BY <2>1
  <2>3. IdsOnce(list)' /\ Agree'
    BY <2>2, <1>5 DEF IdsOnce, Agree, Has
  <2>4. kind \notin Posting
    BY <1>8 DEF Posting
  <2> QED BY <2>3, <2>4, <1>1, <1>5, <1>7 DEF MembersOK
<1>9. ASSUME kind \in Assigning, ~late' PROVE AssigningOK'
  <2>1. count' = [t \in Things |-> None]
    BY <1>9 DEF Assigning, Leave, LeaveMembers, LeaveUsers, LeaveOrganizations,
                LeaveAdministrators, LeaveTrusted
  <2>2. \A t \in Things : count'[t] = None
    BY <2>1
  <2>3. answers' = <<>>
    BY <1>9 DEF Assigning, Posting
  <2> QED BY <2>2, <2>3, <1>1, <1>5, <1>9 DEF AssigningOK
<1>10. ASSUME kind \in Posting PROVE PostingOK'
  BY <1>1, <1>5, <1>7 DEF PostingOK
<1> QED BY <1>4, <1>6, <1>8, <1>9, <1>10 DEF DInv, Assigning, Posting

LEMMA StepCancel == ASSUME DialogsAssumption, DInv, Cancel PROVE DInv'
<1>1. /\ Leave /\ kind' = kind /\ fades' = fades /\ row' = row /\ serial' = serial
      /\ open' = FALSE /\ answers' = answers /\ offered' = offered
      /\ late' = (late \/ (answers # <<>> /\ kind # "trusted"))
  BY DEF Cancel
<1>2. answers \in Seq(Listings \cup {None}) /\ late \in BOOLEAN
  BY DEF DInv, DialogTypes
<1>3. ~late' /\ kind \notin Posting => answers' = <<>>
  BY <1>1 DEF Posting
<1> QED BY <1>1, <1>2, <1>3, StepLeft

\* What is left of the answers when one of them comes.
LEMMA FewerAnswers ==
    ASSUME DialogTypes, NEW i \in DOMAIN answers, answers' = RemoveAt(answers, i)
    PROVE  /\ answers # <<>> /\ answers[i] \in Listings \cup {None}
           /\ answers' \in Seq(Listings \cup {None})
           /\ Len(answers) = 1 => answers' = <<>>
<1>1. answers \in Seq(Listings \cup {None}) /\ i \in 1..Len(answers)
  BY DEF DialogTypes
<1>2. /\ RemoveAt(answers, i) \in Seq(Listings \cup {None})
      /\ Len(RemoveAt(answers, i)) = Len(answers) - 1
  BY <1>1, Removed
<1>3. Len(answers) = 1 => answers' = <<>>
  BY <1>2
<1> QED BY <1>1, <1>2, <1>3

\* An answer that is not late finds the dialog open.
LEMMA OneAnswer ==
    ASSUME DInv, answers # <<>>, ~late, kind = "members" \/ kind \in Assigning
    PROVE  open = TRUE /\ Len(answers) = 1
<1>1. open \in BOOLEAN
  BY DEF DInv, DialogTypes
<1> QED BY <1>1 DEF DInv, MembersOK, AssigningOK

LEMMA StepError ==
    ASSUME DialogsAssumption, DInv, NEW i \in DOMAIN answers, answers' = RemoveAt(answers, i),
           Leave, open' = ~open, UNCHANGED <<kind, fades, row, serial, offered, late>>
    PROVE  DInv'
<1>1. /\ answers # <<>> /\ answers' \in Seq(Listings \cup {None})
      /\ Len(answers) = 1 => answers' = <<>>
  BY FewerAnswers DEF DInv
<1>2. open \in BOOLEAN /\ late \in BOOLEAN /\ kind \in Kinds
  BY DEF DInv, DialogTypes
<1>3. ~late' /\ kind \notin Posting => answers' = <<>>
  BY <1>1, <1>2, KindIs, OneAnswer
<1>4. ~late' /\ kind \in Assigning => ~open'
  BY <1>1, <1>2, OneAnswer
<1> QED BY <1>1, <1>2, <1>3, <1>4, StepLeft

-----------------------------------------------------------------------------
(* More rows. *)

\* New rows are numbered from serial and shown; the others are as they were.
OldRow(e) == \E j \in DOMAIN rows : e.id = rows[j].id /\ e.n = rows[j].n /\ e.look = rows[j].look
NewRow(e) == e.n >= serial /\ e.look = "shown"
LEMMA FadesGrown ==
    ASSUME DialogsAssumption, DialogTypes, NumbersOK, FadesOK, kind' = kind, fades' = fades,
           touched \subseteq touched', rows' \in Seq(RowShape),
           \/ row' = row
           \/ row' = None /\ (kind = "members" \/ ~Waiting),
           \A i \in DOMAIN rows' : OldRow(rows'[i]) \/ NewRow(rows'[i])
    PROVE  FadesOK'
<1>1. \A i \in DOMAIN rows' : rows'[i].n \in Nat
  <2>1. \A i \in DOMAIN rows' : rows'[i] \in RowShape
    OBVIOUS
  <2> QED BY <2>1 DEF RowShape
<1>2. None \notin Nat /\ serial \in Nat /\ fades \subseteq Nat /\ row \in Nat \cup {None}
  BY DEF DialogsAssumption, DialogTypes
<1>3. ASSUME NEW i \in DOMAIN rows', NewRow(rows'[i])
      PROVE  rows'[i].look = "shown" /\ rows'[i].n \notin fades' \cup {row'}
  BY <1>1, <1>2, <1>3 DEF NumbersOK, NewRow
<1>4. ASSUME NEW i \in DOMAIN rows', OldRow(rows'[i])
      PROVE  /\ rows'[i].n \in fades' \cup {row'} => rows'[i].look # "shown"
             /\ rows'[i].look # "shown" =>
                   /\ rows'[i].id \in touched'
                   /\ kind' # "members" =>
                         rows'[i].look = "fading" /\ rows'[i].n = row' /\ row' \in fades'
  <2>1. PICK j \in DOMAIN rows : /\ rows'[i].id = rows[j].id /\ rows'[i].n = rows[j].n
                                 /\ rows'[i].look = rows[j].look
    BY <1>4 DEF OldRow
  <2>2. rows'[i].n \in fades' \cup {row'} => rows'[i].look # "shown"
    BY <2>1, <1>1, <1>2 DEF FadesOK
  <2>3. rows'[i].look # "shown" => rows'[i].id \in touched'
    BY <2>1 DEF FadesOK
  <2>4. ASSUME rows'[i].look # "shown", kind # "members"
        PROVE  rows'[i].look = "fading" /\ rows'[i].n = row' /\ row' \in fades'
    <3>1. Waiting
      BY <2>1, <2>4, AllShown
    <3> QED BY <3>1, <2>1, <2>4 DEF FadesOK
  <2> QED BY <2>2, <2>3, <2>4
<1> QED BY <1>3, <1>4 DEF FadesOK

LEMMA NumbersGrown ==
    ASSUME DialogTypes, NumbersOK, fades' = fades, row' = row \/ row' = None,
           serial' \in Nat, serial <= serial', Numbered(rows, 0, serial)'
    PROVE  NumbersOK'
<1>1. /\ \A n \in fades : n \in Nat /\ n < serial
      /\ row # None => row \in Nat /\ row < serial
  BY DEF NumbersOK, DialogTypes
<1>2. serial \in Nat
  BY DEF DialogTypes
<1>3. \A n \in fades' : n < serial'
  BY <1>1, <1>2
<1>4. row' # None => row' < serial'
  BY <1>1, <1>2
<1> QED BY <1>3, <1>4 DEF NumbersOK

\* New rows below the others.
Added(r, ids, X) ==
    /\ r \in Seq(RowShape) /\ serial + Len(ids) \in Nat /\ serial <= serial + Len(ids)
    /\ Numbered(r, 0, serial + Len(ids))
    /\ \A i \in DOMAIN r : OldRow(r[i]) \/ NewRow(r[i])
    /\ \A i \in DOMAIN r :
          \/ i \in DOMAIN rows /\ r[i] = rows[i]
          \/ \E j \in DOMAIN ids : r[i].id = ids[j] /\ r[i].active = X /\ ~r[i].empty
                                   /\ r[i].look = "shown" /\ r[i].offers
    /\ \A i \in DOMAIN rows : i \in DOMAIN r /\ r[i] = rows[i]
    /\ \A j \in DOMAIN ids :
          \E i \in DOMAIN r : r[i].id = ids[j] /\ r[i].active = X /\ r[i].look = "shown"
    /\ IdsOnce(rows) /\ IsInjective(ids)
          /\ (\A i \in DOMAIN rows, j \in DOMAIN ids : rows[i].id # ids[j]) => IdsOnce(r)
LEMMA RowsAdded ==
    ASSUME DialogTypes, NumbersOK, NEW ids \in Seq(Things), NEW X \in SUBSET Roles,
           NEW r, r = rows \o MakeRows(ids, serial, X)
    PROVE  Added(r, ids, X)
<1>1. serial \in Nat /\ rows \in Seq(RowShape) /\ Len(ids) \in Nat
  BY DEF DialogTypes
<1>2. PICK new : new = MakeRows(ids, serial, X)
  OBVIOUS
<1>3. /\ new \in Seq(RowShape) /\ DOMAIN new = DOMAIN ids
      /\ Numbered(new, serial, serial + Len(ids))
      /\ \A i \in DOMAIN new : /\ new[i].id = ids[i] /\ new[i].active = X /\ ~new[i].empty
                               /\ new[i].look = "shown" /\ new[i].n >= serial /\ new[i].offers
      /\ IsInjective(ids) => IdsOnce(new)
  BY <1>1, <1>2, MadeRows
<1>4. r = rows \o new
  BY <1>2
<1>5. /\ r \in Seq(RowShape)
      /\ \A i \in DOMAIN r : \/ i \in DOMAIN rows /\ r[i] = rows[i]
                             \/ i - Len(rows) \in DOMAIN new /\ r[i] = new[i - Len(rows)]
      /\ \A i \in DOMAIN rows : i \in DOMAIN r /\ r[i] = rows[i]
      /\ \A j \in DOMAIN new : Len(rows) + j \in DOMAIN r /\ r[Len(rows) + j] = new[j]
  BY <1>1, <1>3, <1>4, Joined
<1>6. serial + Len(ids) \in Nat /\ serial <= serial + Len(ids)
  BY <1>1
<1>7. Numbered(r, 0, serial + Len(ids))
  BY <1>1, <1>3, <1>4, <1>6, NumberedJoined DEF NumbersOK
<1>8. ASSUME NEW i \in DOMAIN r
      PROVE  /\ OldRow(r[i]) \/ NewRow(r[i])
             /\ \/ i \in DOMAIN rows /\ r[i] = rows[i]
                \/ \E j \in DOMAIN ids : r[i].id = ids[j] /\ r[i].active = X /\ ~r[i].empty
                                         /\ r[i].look = "shown" /\ r[i].offers
  <2>1. CASE i \in DOMAIN rows /\ r[i] = rows[i]
    BY <2>1 DEF OldRow
  <2>2. CASE i - Len(rows) \in DOMAIN new /\ r[i] = new[i - Len(rows)]
    BY <2>2, <1>3 DEF NewRow
  <2> QED BY <2>1, <2>2, <1>5
<1>9. ASSUME NEW j \in DOMAIN ids
      PROVE  \E i \in DOMAIN r : r[i].id = ids[j] /\ r[i].active = X /\ r[i].look = "shown"
  <2>1. PICK i \in DOMAIN r : r[i] = new[j]
    BY <1>3, <1>5
  <2>2. new[j].id = ids[j] /\ new[j].active = X /\ new[j].look = "shown"
    BY <1>3
  <2> QED BY <2>1, <2>2
<1>10. ASSUME IdsOnce(rows), IsInjective(ids),
              \A i \in DOMAIN rows, j \in DOMAIN ids : rows[i].id # ids[j]
       PROVE  IdsOnce(r)
  <2>1. \A i \in DOMAIN rows, j \in DOMAIN new : rows[i].id # new[j].id
    BY <1>3, <1>10
  <2> QED BY <2>1, <1>1, <1>3, <1>4, <1>10, IdsJoined
<1> QED BY <1>5, <1>6, <1>7, <1>8, <1>9, <1>10 DEF Added

\* The applications that are trusted are shown when the dialog opens.
LEMMA StepOpenTrusted ==
    ASSUME DialogsAssumption, DInv, OpenTrusted, ~hasty' PROVE DInv'
<1> DEFINE ids == [i \in DOMAIN list |-> list[i].id]
<1>1. /\ kind = "trusted" /\ open' = TRUE /\ rows' = rows \o MakeRows(ids, serial, {"listed"})
      /\ serial' = serial + Len(ids)
      /\ listed' = [t \in {list[i].id : i \in DOMAIN list} |-> {"listed"}]
      /\ UNCHANGED <<kind, answers, list, count, fades, row, offered, touched, late>>
  BY DEF OpenTrusted, OpenDialog
<1>2. Roles' = Roles /\ Listings' = Listings /\ RowShape' = RowShape /\ Entry' = Entry
  BY <1>1, SameKind
<1>3. kind \in Posting /\ Roles = {"listed"} /\ kind \notin Assigning
  BY <1>1 DEF Posting, Roles, Assigning
<1>4. ids \in Seq(Things) /\ DOMAIN ids = DOMAIN list
  <2>1. list \in Seq(Entry)
    BY DEF DInv, DialogTypes
  <2>2. \A i \in DOMAIN list : list[i] \in Entry
    BY <2>1
  <2>3. \A i \in DOMAIN list : list[i].id \in Things
    BY <2>2 DEF Entry
  <2>4. ids \in [1..Len(list) -> Things] /\ Len(list) \in Nat
    BY <2>1, <2>3
  <2> QED BY <2>1, <2>4
<1>5. \A i \in DOMAIN list : ids[i] = list[i].id
  OBVIOUS
<1> HIDE DEF ids
<1>6. /\ rows' \in Seq(RowShape) /\ serial' \in Nat /\ serial <= serial'
      /\ Numbered(rows', 0, serial')
      /\ \A i \in DOMAIN rows' : OldRow(rows'[i]) \/ NewRow(rows'[i])
      /\ \A i \in DOMAIN rows' : \/ i \in DOMAIN rows /\ rows'[i] = rows[i]
                                 \/ rows'[i].active = {"listed"} /\ rows'[i].offers
      /\ \A j \in DOMAIN ids : \E i \in DOMAIN rows' : rows'[i].id = ids[j]
  <2>1. DialogTypes /\ NumbersOK /\ {"listed"} \in SUBSET Roles
    BY <1>3 DEF DInv
  <2>2. PICK r : r = rows \o MakeRows(ids, serial, {"listed"})
    OBVIOUS
  <2>4. Added(r, ids, {"listed"})
    BY <1>4, <2>1, <2>2, RowsAdded
  <2>3. /\ r \in Seq(RowShape) /\ serial + Len(ids) \in Nat /\ serial <= serial + Len(ids)
        /\ Numbered(r, 0, serial + Len(ids))
        /\ \A i \in DOMAIN r : OldRow(r[i]) \/ NewRow(r[i])
        /\ \A i \in DOMAIN r : \/ i \in DOMAIN rows /\ r[i] = rows[i]
                               \/ r[i].active = {"listed"} /\ r[i].offers
        /\ \A j \in DOMAIN ids : \E i \in DOMAIN r : r[i].id = ids[j]
    BY <2>4 DEF Added
  <2> QED BY <1>1, <2>2, <2>3
<1>10. DialogTypes'
  BY <1>1, <1>2, <1>6 DEF DInv, DialogTypes
<1>11. Numbered(rows, 0, serial)'
  BY <1>6 DEF Numbered
<1>12. NumbersOK' /\ FadesOK' /\ OffersOK'
  <2>1. OffersOK'
    BY <1>1, <1>3, <1>6 DEF DInv, OffersOK
  <2> QED BY <1>1, <1>6, <1>11, <2>1, FadesGrown, NumbersGrown DEF DInv
<1>13. PostingOK'
  <2>1. \A i \in DOMAIN rows' : rows'[i].active = {"listed"}
    BY <1>3, <1>6 DEF DInv, PostingOK
  <2>2. Kept'
    <3> SUFFICES ASSUME NEW t \in DOMAIN listed', NEW x \in Roles'
                 PROVE  Posts(t, x)' /\ x \in listed'[t]
      BY DEF Kept
    <3>1. PICK i \in DOMAIN list : t = list[i].id
      BY <1>1
    <3>2. \E j \in DOMAIN rows' : rows'[j].id = t
      BY <1>4, <1>5, <1>6, <3>1
    <3>3. x = "listed" /\ listed'[t] = {"listed"}
      BY <1>1, <1>2, <1>3
    <3> QED BY <1>1, <1>3, <3>2, <3>3 DEF Posts
  <2>3. answers' = <<>>
    BY <1>1 DEF OpenTrusted
  <2> QED BY <2>1, <2>2, <2>3 DEF PostingOK
<1> QED BY <1>1, <1>3, <1>10, <1>12, <1>13 DEF DInv

\* The answer with the administrators, or the applications that are trusted.
LEMMA StepArrivePosting ==
    ASSUME DialogsAssumption, DInv, NEW i \in DOMAIN answers, answers' = RemoveAt(answers, i),
           NEW l, l = answers[i], l # None, ArriveAdministrators(l) \/ ArriveTrusted(l),
           listed' = IF kind = "trusted" THEN listed ELSE l, offered' = TRUE,
           UNCHANGED <<kind, open, fades, row, touched, late>>
    PROVE  DInv'
<1>1. kind \in Posting /\ Roles = {"listed"} /\ kind \notin Assigning /\ kind # "members"
  BY DEF Posting, Roles, Assigning, ArriveAdministrators, ArriveTrusted
<1>2. Roles' = Roles /\ Listings' = Listings /\ RowShape' = RowShape /\ Entry' = Entry
  BY SameKind
<1>3. answers # <<>> /\ l \in Listings /\ answers' \in Seq(Listings \cup {None})
  BY FewerAnswers DEF DInv
<1>4. kind \in Kinds
  BY DEF DInv, DialogTypes
<1>5. /\ DOMAIN l \subseteq Things /\ IsFiniteSet(DOMAIN l)
      /\ \A t \in DOMAIN l : l[t] \subseteq Roles /\ l[t] = {"listed"}
  BY <1>1, <1>3, <1>4, ListingIs
<1>6. CASE kind = "trusted"
  <2>1. /\ list' = SetToSeq(Entries(l)) /\ UNCHANGED <<rows, serial, count, listed>>
    BY <1>6 DEF ArriveAdministrators, ArriveTrusted
  <2>2. list' \in Seq(Entry)
    BY <1>4, <1>5, <2>1, EntriesAre
  <2>3. DialogTypes'
    BY <1>2, <1>3, <2>1, <2>2 DEF DInv, DialogTypes
  <2>4. NumbersOK' /\ FadesOK' /\ OffersOK'
    BY <2>1 DEF DInv, NumbersOK, FadesOK, Numbered, OffersOK, Assigning
  <2>5. PostingOK'
    <3>1. PostingOK
      BY <1>1 DEF DInv
    <3>2. listed' = None
      BY <2>1, <1>3, <1>6, <3>1 DEF PostingOK
    <3> QED BY <3>1, <3>2, <2>1 DEF PostingOK, Kept
  <2> QED BY <1>1, <2>3, <2>4, <2>5 DEF DInv
<1>7. CASE kind = "administrators"
  <2>1. PICK ids : ids = SetToSeq(DOMAIN l)
    OBVIOUS
  <2>2. /\ rows' = rows \o MakeRows(ids, serial, {"listed"})
        /\ serial' = serial + Len(ids) /\ UNCHANGED <<list, count>> /\ listed' = l
    BY <1>7, <2>1 DEF ArriveAdministrators, ArriveTrusted
  <2>3. EachOnce(ids, DOMAIN l)
    BY <2>1, <1>5, EachOnceSetToSeq
  <2>4. /\ ids \in Seq(Things) /\ DOMAIN ids = 1..Len(ids)
        /\ \A t \in DOMAIN l : \E j \in 1..Len(ids) : ids[j] = t
    <3>1. ids \in Seq(DOMAIN l)
      BY <2>3, EachOnceGives
    <3> QED BY <3>1, <2>3, <1>5, EachOnceGives
  <2>6. /\ rows' \in Seq(RowShape) /\ serial' \in Nat /\ serial <= serial'
        /\ Numbered(rows', 0, serial')
        /\ \A k \in DOMAIN rows' : OldRow(rows'[k]) \/ NewRow(rows'[k])
        /\ \A k \in DOMAIN rows' : \/ k \in DOMAIN rows /\ rows'[k] = rows[k]
                                   \/ rows'[k].active = {"listed"} /\ rows'[k].offers
        /\ \A j \in DOMAIN ids : \E k \in DOMAIN rows' : rows'[k].id = ids[j]
    <3>1. DialogTypes /\ NumbersOK /\ {"listed"} \in SUBSET Roles
      BY <1>1 DEF DInv
    <3>2. PICK r : r = rows \o MakeRows(ids, serial, {"listed"})
      OBVIOUS
    <3>4. Added(r, ids, {"listed"})
      BY <2>4, <3>1, <3>2, RowsAdded
    <3>3. /\ r \in Seq(RowShape) /\ serial + Len(ids) \in Nat /\ serial <= serial + Len(ids)
          /\ Numbered(r, 0, serial + Len(ids))
          /\ \A k \in DOMAIN r : OldRow(r[k]) \/ NewRow(r[k])
          /\ \A k \in DOMAIN r : \/ k \in DOMAIN rows /\ r[k] = rows[k]
                                 \/ r[k].active = {"listed"} /\ r[k].offers
          /\ \A j \in DOMAIN ids : \E k \in DOMAIN r : r[k].id = ids[j]
      BY <3>4 DEF Added
    <3> QED BY <2>2, <3>2, <3>3
  <2>10. DialogTypes'
    BY <1>2, <1>3, <2>2, <2>6 DEF DInv, DialogTypes
  <2>11. Numbered(rows, 0, serial)'
    BY <2>6 DEF Numbered
  <2>12. NumbersOK' /\ FadesOK' /\ OffersOK'
    <3>1. OffersOK'
      BY <1>1, <2>6 DEF DInv, OffersOK
    <3> QED BY <2>6, <2>11, <3>1, FadesGrown, NumbersGrown DEF DInv
  <2>13. PostingOK'
    <3>1. \A k \in DOMAIN rows' : rows'[k].active = {"listed"}
      BY <1>1, <2>6 DEF DInv, PostingOK
    <3>2. Kept'
      <4> SUFFICES ASSUME NEW t \in DOMAIN l, NEW x \in Roles
                   PROVE  Posts(t, x)' /\ x \in l[t]
        BY <1>2, <2>2 DEF Kept
      <4>1. \E k \in DOMAIN rows' : rows'[k].id = t
        BY <2>4, <2>6
      <4> QED BY <1>1, <1>5, <4>1 DEF Posts
    <3> QED BY <3>1, <3>2, <1>7 DEF PostingOK
  <2> QED BY <1>1, <2>10, <2>12, <2>13 DEF DInv
<1> QED BY <1>6, <1>7 DEF ArriveAdministrators, ArriveTrusted

\* The answer with the roles of users or organizations.
LEMMA StepArriveAssigned ==
    ASSUME DialogsAssumption, DInv, NEW i \in DOMAIN answers, answers' = RemoveAt(answers, i),
           NEW l, l = answers[i], l # None, ArriveUsers(l) \/ ArriveOrganizations(l),
           listed' = IF kind = "trusted" THEN listed ELSE l, offered' = TRUE,
           UNCHANGED <<kind, open, fades, row, touched, late>>
    PROVE  DInv'
<1>1. kind \in Assigning /\ kind \notin Posting /\ kind # "members" /\ listed' = l
  BY DEF Posting, Assigning, ArriveUsers, ArriveOrganizations
<1>2. Roles' = Roles /\ Listings' = Listings /\ RowShape' = RowShape /\ Entry' = Entry
  BY SameKind
<1>3. /\ answers # <<>> /\ l \in Listings /\ answers' \in Seq(Listings \cup {None})
      /\ Len(answers) = 1 => answers' = <<>>
  BY FewerAnswers DEF DInv
<1>4. kind \in Kinds /\ DialogTypes /\ NumbersOK /\ FadesOK
  BY DEF DInv, DialogTypes
<1>5. /\ DOMAIN l \subseteq Things /\ IsFiniteSet(DOMAIN l)
      /\ \A t \in DOMAIN l : l[t] \subseteq Roles
  BY <1>3, <1>4, ListingIs
<1> DEFINE T == {t \in DOMAIN l : RowsOf(t) = {}}
<1>6. PICK new : new = SetToSeq(T)
  OBVIOUS
<1>7. PICK r : r = rows \o MakeRows(new, serial, {})
  OBVIOUS
<1>8. /\ list' = SetToSeq(Entries(l)) /\ count' = Counted(l)
      /\ rows' = MarkedIn(r, l) /\ serial' = serial + Len(new)
  BY <1>6, <1>7 DEF ArriveUsers, ArriveOrganizations, ArriveAssigned
<1>9. EachOnce(new, T)
  <2>1. T \in SUBSET DOMAIN l
    OBVIOUS
  <2>2. IsFiniteSet(T)
    BY <2>1, <1>5, FS_Subset
  <2> QED BY <2>2, <1>6, EachOnceSetToSeq
<1>10. \A t : t \in T <=> t \in DOMAIN l /\ \A j \in DOMAIN rows : rows[j].id # t
  BY DEF RowsOf
<1> HIDE DEF T
<1>11. /\ new \in Seq(Things) /\ DOMAIN new = 1..Len(new) /\ IsInjective(new)
       /\ \A j \in DOMAIN new : new[j] \in T
       /\ \A t \in T : \E j \in DOMAIN new : new[j] = t
  <2>1. /\ new \in Seq(T) /\ DOMAIN new = 1..Len(new) /\ IsInjective(new)
        /\ new \in [1..Len(new) -> T]
        /\ \A t \in T : \E j \in 1..Len(new) : new[j] = t
    BY <1>9, EachOnceGives DEF EachOnce
  <2>2. T \subseteq Things
    BY <1>5, <1>10
  <2> QED BY <2>1, <2>2
<1>12. Added(r, new, {})
  BY <1>4, <1>7, <1>11, RowsAdded
<1>13. /\ r \in Seq(RowShape) /\ serial' \in Nat /\ serial <= serial' /\ Numbered(r, 0, serial')
       /\ IdsOnce(rows) => IdsOnce(r)
  <2>1. \A k \in DOMAIN rows, j \in DOMAIN new : rows[k].id # new[j]
    BY <1>10, <1>11
  <2> QED BY <1>8, <1>11, <1>12, <2>1 DEF Added
<1>14. /\ rows' \in Seq(RowShape) /\ DOMAIN rows' = DOMAIN r /\ Numbered(rows', 0, serial')
       /\ IdsOnce(rows) => IdsOnce(rows')
       /\ \A k \in DOMAIN r :
             /\ rows'[k].id = r[k].id /\ rows'[k].n = r[k].n /\ rows'[k].look = r[k].look
             /\ rows'[k].offers = r[k].offers
             /\ IdsOnce(rows) => rows'[k].active = IF r[k].id \in DOMAIN l /\ r[k].offers
                                                   THEN r[k].active \cup l[r[k].id]
                                                   ELSE r[k].active
  <2>1. PICK q : q = MarkedIn(r, l)
    OBVIOUS
  <2>3. MarkedAs(q, r, l)
    BY <1>5, <1>13, <2>1, Marked
  <2>2. /\ q \in Seq(RowShape) /\ DOMAIN q = DOMAIN r /\ Numbered(q, 0, serial')
        /\ IdsOnce(r) => IdsOnce(q)
        /\ \A k \in DOMAIN r :
             /\ q[k].id = r[k].id /\ q[k].n = r[k].n /\ q[k].look = r[k].look
             /\ q[k].offers = r[k].offers
             /\ IdsOnce(r) => q[k].active = IF r[k].id \in DOMAIN l /\ r[k].offers
                                            THEN r[k].active \cup l[r[k].id] ELSE r[k].active
    BY <2>3, <1>13 DEF MarkedAs
  <2> QED BY <1>8, <1>13, <2>1, <2>2
<1>15. list' \in Seq(Entry)
  BY <1>4, <1>5, <1>8, EntriesAre
<1>16. \A t \in DOMAIN l : Cardinality(l[t]) \in Nat
  BY <1>4, <1>5, KindIs, FS_Subset, FS_CardinalityType
<1>17. count' \in [Things -> Int \cup {None, NaN}]
  <2>1. \A t \in Things : count[t] \in Int \cup {None, NaN}
    BY <1>4 DEF DialogTypes
  <2> QED BY <1>8, <1>16, <2>1 DEF Counted
<1>18. DialogTypes'
  BY <1>2, <1>3, <1>4, <1>13, <1>14, <1>15, <1>17 DEF DialogTypes
<1>19. Numbered(rows, 0, serial)'
  BY <1>14 DEF Numbered
<1>20. ASSUME NEW k \in DOMAIN rows' PROVE OldRow(rows'[k]) \/ NewRow(rows'[k])
  <2>1. OldRow(r[k]) \/ NewRow(r[k])
    BY <1>12, <1>14 DEF Added
  <2> QED BY <2>1, <1>14 DEF OldRow, NewRow
<1>21. NumbersOK' /\ FadesOK'
  BY <1>4, <1>13, <1>14, <1>19, <1>20, FadesGrown, NumbersGrown
<1>22. ASSUME ~late PROVE AssigningOK'
  <2>1. AssigningOK /\ open = TRUE /\ answers' = <<>>
    BY <1>1, <1>3, <1>22, OneAnswer DEF DInv
  <2>2. /\ IdsOnce(rows)
        /\ \A k \in DOMAIN rows : /\ rows[k].look = "shown" /\ rows[k].active = {}
                                  /\ count[rows[k].id] = 0
        /\ \A t \in Things : (\A k \in DOMAIN rows : rows[k].id # t) => count[t] = None
    <3>1. Cardinality({}) = 0
      BY FS_EmptySet
    <3>2. listed = None /\ \A k \in DOMAIN rows : rows[k].look = "shown" /\ rows[k].active = {}
      BY <2>1, <1>3 DEF AssigningOK
    <3>3. \A k \in DOMAIN rows : RolesIn(k) = {}
      BY <3>2 DEF RolesIn
    <3> QED BY <2>1, <3>1, <3>2, <3>3 DEF AssigningOK
  <2>3. \A k \in DOMAIN r : /\ r[k].look = "shown" /\ r[k].active = {} /\ r[k].id \in Things
                            /\ \/ k \in DOMAIN rows /\ r[k] = rows[k]
                               \/ r[k].id \in DOMAIN l
    <3>1. \A k \in DOMAIN r : r[k] \in RowShape
      BY <1>13
    <3> QED BY <2>2, <3>1, <1>10, <1>11, <1>12 DEF Added, RowShape
  <2>4. \A t \in DOMAIN l : \E k \in DOMAIN r : r[k].id = t
    <3> SUFFICES ASSUME NEW t \in DOMAIN l PROVE \E k \in DOMAIN r : r[k].id = t
      OBVIOUS
    <3>1. CASE t \in T
      BY <3>1, <1>11, <1>12 DEF Added
    <3>2. CASE t \notin T
      <4>1. PICK j \in DOMAIN rows : rows[j].id = t
        BY <3>2, <1>10
      <4>2. j \in DOMAIN r /\ r[j] = rows[j]
        BY <1>12 DEF Added
      <4> QED BY <4>1, <4>2
    <3> QED BY <3>1, <3>2
  <2>5. \A k \in DOMAIN rows' :
           /\ rows'[k].look = "shown" /\ rows'[k].id = r[k].id
           /\ RolesIn(k)' = IF r[k].id \in DOMAIN l THEN l[r[k].id] ELSE {}
    <3> SUFFICES ASSUME NEW k \in DOMAIN r
                 PROVE  /\ rows'[k].look = "shown" /\ rows'[k].id = r[k].id
                        /\ RolesIn(k)' = IF r[k].id \in DOMAIN l THEN l[r[k].id] ELSE {}
      BY <1>14
    <3>1. r[k].look = "shown" /\ r[k].active = {}
      BY <2>3
    <3>2. /\ rows'[k].look = r[k].look /\ rows'[k].id = r[k].id /\ rows'[k].offers = r[k].offers
          /\ rows'[k].active = IF r[k].id \in DOMAIN l /\ r[k].offers
                               THEN r[k].active \cup l[r[k].id] ELSE r[k].active
      BY <1>14, <2>2
    <3>3. CASE r[k].offers
      <4>1. RolesIn(k)' = rows'[k].active
        BY <3>2, <3>3 DEF RolesIn
      <4>2. {} \cup l[r[k].id] = l[r[k].id]
        OBVIOUS
      <4> QED BY <3>1, <3>2, <3>3, <4>1, <4>2
    <3>4. CASE ~r[k].offers
      <4>1. RolesIn(k)' = IF r[k].id \in DOMAIN l THEN l[r[k].id] ELSE {}
        BY <3>2, <3>4, <1>1 DEF RolesIn
      <4> QED BY <3>1, <3>2, <4>1
    <3> QED BY <3>3, <3>4
  <2>6. \A t \in Things : count'[t] = IF t \in DOMAIN l THEN Cardinality(l[t]) ELSE count[t]
    <3> SUFFICES ASSUME NEW t \in Things
                 PROVE  count'[t] = IF t \in DOMAIN l THEN Cardinality(l[t]) ELSE count[t]
      OBVIOUS
    <3>1. count[t] = None \/ count[t] = 0
      BY <2>2
    <3>2. 0 \notin {None, NaN}
      BY DEF DialogsAssumption
    <3> QED BY <3>1, <3>2, <1>8, <1>16 DEF Counted
  <2>7. ASSUME NEW k \in DOMAIN rows' PROVE count'[rows'[k].id] = Cardinality(RolesIn(k)')
    <3>1. CASE r[k].id \in DOMAIN l
      BY <3>1, <2>3, <2>5, <2>6, <1>14
    <3>2. CASE r[k].id \notin DOMAIN l
      <4>1. k \in DOMAIN rows /\ r[k] = rows[k]
        BY <3>2, <2>3, <1>14
      <4>2. Cardinality({}) = 0
        BY FS_EmptySet
      <4>3. RolesIn(k)' = {} /\ rows'[k].id = r[k].id
        BY <3>2, <2>5
      <4>4. r[k].id \in Things
        BY <2>3, <1>14
      <4>5. count'[r[k].id] = count[r[k].id]
        BY <3>2, <4>4, <2>6
      <4>6. count[r[k].id] = 0
        BY <4>1, <2>2
      <4> QED BY <4>2, <4>3, <4>5, <4>6
    <3> QED BY <3>1, <3>2
  <2>8. ASSUME NEW t \in Things, \A k \in DOMAIN rows' : rows'[k].look = "shown" => rows'[k].id # t
        PROVE  count'[t] = None
    <3>1. \A k \in DOMAIN r : r[k].id # t
      BY <2>5, <2>8, <1>14
    <3>2. t \notin DOMAIN l /\ \A k \in DOMAIN rows : rows[k].id # t
      BY <3>1, <2>4, <1>12 DEF Added
    <3> QED BY <3>2, <2>2, <2>6
  <2>9. ASSUME NEW t, NEW x PROVE Has(t, x)' <=> t \in DOMAIN l /\ x \in l[t]
    <3>1. PICK s : s = SetToSeq(Entries(l))
      OBVIOUS
    <3>2. /\ \A k \in DOMAIN s : s[k].id \in DOMAIN l /\ s[k].role \in l[s[k].id]
          /\ \A u \in DOMAIN l : \A y \in l[u] :
                 \E k \in DOMAIN s : s[k].id = u /\ s[k].role = y
      BY <3>1, <1>4, <1>5, EntriesAre
    <3> QED BY <3>1, <3>2, <1>8 DEF Has
  <2>10. ASSUME NEW t, NEW x PROVE Shows(t, x)' <=> t \in DOMAIN l /\ x \in l[t]
    BY <2>4, <2>5, <1>14 DEF Shows
  <2>11. Agree'
    BY <2>9, <2>10 DEF Agree
  <2>12. Kept'
    BY <2>9, <1>1 DEF Kept, Posts
  <2>13. IdsOnce(rows)'
    BY <2>2, <1>14 DEF IdsOnce
  <2> QED BY <2>1, <2>7, <2>8, <2>11, <2>12, <2>13 DEF AssigningOK
<1>23. OffersOK'
  <2>1. Roles = AppRoles
    BY <1>1, <1>4, KindIs
  <2> QED BY <1>1, <1>5, <2>1 DEF OffersOK, Assigning
<1> QED BY <1>1, <1>18, <1>21, <1>22, <1>23 DEF DInv

\* The answer with the members: the owners come above the rows that are there,
\* the others below.
LEMMA StepArriveMembers ==
    ASSUME DialogsAssumption, DInv, NEW i \in DOMAIN answers, answers' = RemoveAt(answers, i),
           NEW l, l = answers[i], l # None, ArriveMembers(l),
           listed' = IF kind = "trusted" THEN listed ELSE l, offered' = TRUE,
           UNCHANGED <<kind, open, fades, row, touched, late>>
    PROVE  DInv'
<1>1. kind = "members" /\ kind \notin Assigning /\ kind \notin Posting /\ listed' = l
  BY DEF Posting, Assigning, ArriveMembers
<1>2. Roles' = Roles /\ Listings' = Listings /\ RowShape' = RowShape /\ Entry' = Entry
  BY SameKind
<1>3. /\ answers # <<>> /\ l \in Listings /\ answers' \in Seq(Listings \cup {None})
      /\ Len(answers) = 1 => answers' = <<>>
  BY FewerAnswers DEF DInv
<1>4. kind \in Kinds /\ DialogTypes /\ NumbersOK /\ FadesOK /\ MembersOK /\ OffersOK
  BY <1>1 DEF DInv, DialogTypes
<1>5. /\ DOMAIN l \subseteq Things /\ IsFiniteSet(DOMAIN l)
      /\ \A t \in DOMAIN l : l[t] \subseteq Roles /\ (l[t] = {"owner"} \/ l[t] = {"member"})
  BY <1>1, <1>3, <1>4, ListingIs
<1>6. PICK new : new = [t \in DOMAIN l \ {list[k].id : k \in DOMAIN list} |-> l[t]]
  OBVIOUS
<1> DEFINE O == {t \in DOMAIN new : "owner" \in new[t]}
           M == {t \in DOMAIN new : "owner" \notin new[t]}
<1>7. PICK owners : owners = SetToSeq(O)
  OBVIOUS
<1>8. PICK others : others = SetToSeq(M)
  OBVIOUS
<1>9. PICK a : a = MakeRows(owners, serial, {})
  OBVIOUS
<1>10. PICK b : b = MakeRows(others, serial + Len(owners), {})
  OBVIOUS
<1>11. PICK e : e = SetToSeq(Entries(new))
  OBVIOUS
<1>12. PICK c : c = a \o rows
  OBVIOUS
<1>13. PICK r : r = c \o b
  OBVIOUS
<1>14. /\ list' = list \o e /\ count' = count /\ rows' = MarkedIn(r, new)
       /\ serial' = serial + Cardinality(DOMAIN new)
  BY <1>6, <1>7, <1>8, <1>9, <1>10, <1>11, <1>12, <1>13 DEF ArriveMembers
<1>15. /\ \A t : t \in DOMAIN new <=> t \in DOMAIN l /\ \A k \in DOMAIN list : list[k].id # t
       /\ \A t \in DOMAIN new : new[t] = l[t]
       /\ DOMAIN new \subseteq DOMAIN l /\ IsFiniteSet(DOMAIN new)
  <2>1. DOMAIN new \in SUBSET DOMAIN l
    BY <1>6
  <2>2. IsFiniteSet(DOMAIN new)
    BY <2>1, <1>5, FS_Subset
  <2> QED BY <2>1, <2>2, <1>6
<1>16. O \cap M = {} /\ O \cup M = DOMAIN new /\ O \subseteq Things /\ M \subseteq Things
  BY <1>5, <1>15
<1>17. IsFiniteSet(O) /\ IsFiniteSet(M)
  <2>1. O \in SUBSET DOMAIN new /\ M \in SUBSET DOMAIN new
    OBVIOUS
  <2> QED BY <2>1, <1>15, FS_Subset
<1> HIDE DEF O, M
<1>18. EachOnce(owners, O) /\ EachOnce(others, M)
  BY <1>7, <1>8, <1>17, EachOnceSetToSeq
<1>19. /\ owners \in Seq(Things) /\ DOMAIN owners = 1..Len(owners) /\ IsInjective(owners)
       /\ \A j \in DOMAIN owners : owners[j] \in O
       /\ \A t \in O : \E j \in DOMAIN owners : owners[j] = t
  <2>1. /\ owners \in Seq(O) /\ DOMAIN owners = 1..Len(owners) /\ IsInjective(owners)
        /\ owners \in [1..Len(owners) -> O]
        /\ \A t \in O : \E j \in 1..Len(owners) : owners[j] = t
    BY <1>18, EachOnceGives DEF EachOnce
  <2> QED BY <2>1, <1>16
<1>20. /\ others \in Seq(Things) /\ DOMAIN others = 1..Len(others) /\ IsInjective(others)
       /\ \A j \in DOMAIN others : others[j] \in M
       /\ \A t \in M : \E j \in DOMAIN others : others[j] = t
  <2>1. /\ others \in Seq(M) /\ DOMAIN others = 1..Len(others) /\ IsInjective(others)
        /\ others \in [1..Len(others) -> M]
        /\ \A t \in M : \E j \in 1..Len(others) : others[j] = t
    BY <1>18, EachOnceGives DEF EachOnce
  <2> QED BY <2>1, <1>16
<1>21. /\ serial \in Nat /\ serial + Len(owners) \in Nat /\ serial <= serial + Len(owners)
       /\ serial' = (serial + Len(owners)) + Len(others)
       /\ serial' \in Nat /\ serial + Len(owners) <= serial' /\ serial <= serial'
  <2>1. Len(owners) = Cardinality(O) /\ Len(others) = Cardinality(M)
    BY <1>7, <1>8, <1>17, ListedOnce
  <2>2. Cardinality(O \cap M) = 0
    BY <1>16, FS_EmptySet
  <2>3. /\ Cardinality(O) \in Nat /\ Cardinality(M) \in Nat
        /\ Cardinality(O \cup M) = Cardinality(O) + Cardinality(M) - Cardinality(O \cap M)
    BY <1>17, FS_Union, FS_CardinalityType
  <2>4. serial \in Nat
    BY <1>4 DEF DialogTypes
  <2> QED BY <2>1, <2>2, <2>3, <2>4, <1>14, <1>16
<1>22. /\ a \in Seq(RowShape) /\ DOMAIN a = DOMAIN owners
       /\ Numbered(a, serial, serial + Len(owners)) /\ IdsOnce(a)
       /\ \A j \in DOMAIN a : /\ a[j].id = owners[j] /\ a[j].active = {} /\ a[j].offers
                              /\ a[j].look = "shown" /\ a[j].n >= serial
  BY <1>9, <1>19, <1>21, MadeRows
<1>23. /\ b \in Seq(RowShape) /\ DOMAIN b = DOMAIN others
       /\ Numbered(b, serial + Len(owners), serial') /\ IdsOnce(b)
       /\ \A j \in DOMAIN b : /\ b[j].id = others[j] /\ b[j].active = {} /\ b[j].offers
                              /\ b[j].look = "shown" /\ b[j].n >= serial + Len(owners)
  BY <1>10, <1>20, <1>21, MadeRows
<1>24. rows \in Seq(RowShape) /\ IdsOnce(rows) /\ Numbered(rows, 0, serial)
  BY <1>4 DEF DialogTypes, MembersOK, NumbersOK
\* What is shown has its entry, and the other way about.
<1>25. \A j \in DOMAIN rows : /\ rows[j].look = "shown" /\ rows[j].active # {}
                              /\ rows[j].id \notin DOMAIN new /\ rows[j].offers
  <2> SUFFICES ASSUME NEW j \in DOMAIN rows
               PROVE  /\ rows[j].look = "shown" /\ rows[j].active # {}
                      /\ rows[j].id \notin DOMAIN new /\ rows[j].offers
    OBVIOUS
  <2>1. rows[j].look = "shown" /\ rows[j].active # {} /\ rows[j].offers
    BY <1>1, <1>3, <1>4 DEF MembersOK, OffersOK
  <2>2. rows[j] \in RowShape
    BY <1>24
  <2>3. PICK x \in Roles : x \in rows[j].active
    BY <2>1, <2>2 DEF RowShape
  <2>4. Has(rows[j].id, x)
    BY <2>1, <2>2, <2>3, <1>4 DEF MembersOK, Agree, Shows, RolesIn, RowShape
  <2> QED BY <2>1, <2>4, <1>15 DEF Has
<1>26. /\ c \in Seq(RowShape) /\ Numbered(c, 0, serial + Len(owners)) /\ IdsOnce(c)
       /\ \A k \in DOMAIN c : \/ \E j \in DOMAIN rows : c[k] = rows[j]
                              \/ \E j \in DOMAIN owners : k = j /\ c[k] = a[j]
       /\ \A j \in DOMAIN rows : \E k \in DOMAIN c : c[k] = rows[j]
       /\ \A j \in DOMAIN a : \E k \in DOMAIN c : c[k] = a[j]
  <2>1. Numbered(c, 0, serial + Len(owners))
    BY <1>12, <1>21, <1>22, <1>24, NumberedJoined
  <2>2. \A j \in DOMAIN a, k \in DOMAIN rows : a[j].id # rows[k].id
    BY <1>16, <1>19, <1>22, <1>25
  <2>3. IdsOnce(c)
    BY <1>12, <1>22, <1>24, <2>2, IdsJoined
  <2>4. /\ c \in Seq(RowShape)
        /\ \A k \in DOMAIN c : \/ k \in DOMAIN a /\ c[k] = a[k]
                               \/ k - Len(a) \in DOMAIN rows /\ c[k] = rows[k - Len(a)]
        /\ \A j \in DOMAIN a : j \in DOMAIN c /\ c[j] = a[j]
        /\ \A j \in DOMAIN rows : Len(a) + j \in DOMAIN c /\ c[Len(a) + j] = rows[j]
    BY <1>12, <1>22, <1>24, Joined
  <2>5. ASSUME NEW k \in DOMAIN c
        PROVE  \/ \E j \in DOMAIN rows : c[k] = rows[j]
               \/ \E j \in DOMAIN owners : k = j /\ c[k] = a[j]
    BY <2>4, <1>22
  <2> QED BY <2>1, <2>3, <2>4, <2>5
<1>27. /\ r \in Seq(RowShape) /\ Numbered(r, 0, serial')
       /\ \A k \in DOMAIN r : \/ \E j \in DOMAIN c : r[k] = c[j]
                              \/ \E j \in DOMAIN b : r[k] = b[j]
       /\ \A j \in DOMAIN c : \E k \in DOMAIN r : r[k] = c[j]
       /\ \A j \in DOMAIN b : \E k \in DOMAIN r : r[k] = b[j]
  <2>1. Numbered(r, 0, serial')
    BY <1>13, <1>21, <1>23, <1>26, NumberedJoined
  <2>4. /\ r \in Seq(RowShape)
        /\ \A k \in DOMAIN r : \/ k \in DOMAIN c /\ r[k] = c[k]
                               \/ k - Len(c) \in DOMAIN b /\ r[k] = b[k - Len(c)]
        /\ \A j \in DOMAIN c : j \in DOMAIN r /\ r[j] = c[j]
        /\ \A j \in DOMAIN b : Len(c) + j \in DOMAIN r /\ r[Len(c) + j] = b[j]
    BY <1>13, <1>23, <1>26, Joined
  <2> QED BY <2>1, <2>4
<1>28. IdsOnce(r)
  <2>1. ASSUME NEW k \in DOMAIN c, NEW j \in DOMAIN b PROVE c[k].id # b[j].id
    <3>1. b[j].id \in M
      BY <1>20, <1>23
    <3>2. CASE \E m \in DOMAIN rows : c[k] = rows[m]
      BY <3>1, <3>2, <1>16, <1>25
    <3>3. CASE \E m \in DOMAIN owners : k = m /\ c[k] = a[m]
      <4>1. c[k].id \in O
        BY <3>3, <1>19, <1>22
      <4> QED BY <3>1, <4>1, <1>16
    <3> QED BY <3>2, <3>3, <1>26
  <2> QED BY <2>1, <1>13, <1>23, <1>26, IdsJoined
\* A row is an old one, or that of someone new.
<1>29. \A k \in DOMAIN r :
          \/ \E j \in DOMAIN rows : r[k] = rows[j]
          \/ /\ r[k].id \in DOMAIN new /\ r[k].active = {} /\ r[k].offers
             /\ r[k].look = "shown" /\ r[k].n >= serial
  <2> SUFFICES ASSUME NEW k \in DOMAIN r
               PROVE  \/ \E j \in DOMAIN rows : r[k] = rows[j]
                      \/ /\ r[k].id \in DOMAIN new /\ r[k].active = {} /\ r[k].offers
                         /\ r[k].look = "shown" /\ r[k].n >= serial
    OBVIOUS
  <2>1. CASE \E j \in DOMAIN b : r[k] = b[j]
    <3>1. PICK j \in DOMAIN b : r[k] = b[j]
      BY <2>1
    <3>2. b[j].id \in M /\ b[j].active = {} /\ b[j].look = "shown" /\ b[j].offers
      BY <1>20, <1>23
    <3>3. b[j] \in RowShape
      BY <1>23
    <3>4. b[j].n >= serial
      BY <3>3, <1>21, <1>23 DEF RowShape
    <3> QED BY <3>1, <3>2, <3>4, <1>16
  <2>2. CASE \E j \in DOMAIN c : r[k] = c[j]
    <3>1. PICK j \in DOMAIN c : r[k] = c[j]
      BY <2>2
    <3>2. CASE j \in DOMAIN owners /\ c[j] = a[j]
      BY <3>1, <3>2, <1>16, <1>19, <1>22
    <3> QED BY <3>1, <3>2, <1>26
  <2> QED BY <2>1, <2>2, <1>27
<1>30. \A j \in DOMAIN rows : \E k \in DOMAIN r : r[k] = rows[j]
  BY <1>26, <1>27
<1>31. \A t \in DOMAIN new : \E k \in DOMAIN r : r[k].id = t
  <2> SUFFICES ASSUME NEW t \in DOMAIN new PROVE \E k \in DOMAIN r : r[k].id = t
    OBVIOUS
  <2>1. CASE t \in O
    <3>1. PICK j \in DOMAIN a : a[j].id = t
      BY <2>1, <1>19, <1>22
    <3>2. PICK k \in DOMAIN c : c[k] = a[j]
      BY <1>26
    <3> QED BY <3>1, <3>2, <1>27
  <2>2. CASE t \in M
    <3>1. PICK j \in DOMAIN b : b[j].id = t
      BY <2>2, <1>20, <1>23
    <3> QED BY <3>1, <1>27
  <2> QED BY <2>1, <2>2, <1>16
<1>32. /\ rows' \in Seq(RowShape) /\ DOMAIN rows' = DOMAIN r /\ Numbered(rows', 0, serial')
       /\ IdsOnce(rows')
       /\ \A k \in DOMAIN r :
             /\ rows'[k].id = r[k].id /\ rows'[k].n = r[k].n /\ rows'[k].look = r[k].look
             /\ rows'[k].offers
             /\ rows'[k].active = IF r[k].id \in DOMAIN new
                                  THEN r[k].active \cup new[r[k].id] ELSE r[k].active
  <2>1. PICK q : q = MarkedIn(r, new)
    OBVIOUS
  <2>2. \A t \in DOMAIN new : new[t] \subseteq Roles
    BY <1>5, <1>15
  <2>3. MarkedAs(q, r, new)
    BY <1>27, <2>1, <2>2, Marked
  <2>4. /\ q \in Seq(RowShape) /\ DOMAIN q = DOMAIN r /\ Numbered(q, 0, serial')
        /\ IdsOnce(q)
        /\ \A k \in DOMAIN r :
             /\ q[k].id = r[k].id /\ q[k].n = r[k].n /\ q[k].look = r[k].look
             /\ q[k].offers
             /\ q[k].active = IF r[k].id \in DOMAIN new
                              THEN r[k].active \cup new[r[k].id] ELSE r[k].active
    <3>1. \A k \in DOMAIN r : r[k].offers
      BY <1>25, <1>29
    <3> QED BY <2>3, <3>1, <1>27, <1>28 DEF MarkedAs
  <2> QED BY <1>14, <2>1, <2>4
<1>33. /\ e \in Seq(Entry)
       /\ \A k \in DOMAIN e : e[k].id \in DOMAIN new /\ e[k].role \in new[e[k].id]
       /\ \A t \in DOMAIN new : \A x \in new[t] :
                 \E k \in DOMAIN e : e[k].id = t /\ e[k].role = x
       /\ \A k, j \in DOMAIN e : e[k].id = e[j].id /\ e[k].role = e[j].role => k = j
  <2>1. DOMAIN new \subseteq Things /\ \A t \in DOMAIN new : new[t] \subseteq Roles
    BY <1>5, <1>15
  <2> QED BY <2>1, <1>4, <1>11, EntriesAre
<1>34. list \in Seq(Entry) /\ IdsOnce(list)
  BY <1>4 DEF DialogTypes, MembersOK
<1>35. /\ list' \in Seq(Entry)
       /\ \A k \in DOMAIN list' : \/ \E j \in DOMAIN list : list'[k] = list[j]
                                  \/ \E j \in DOMAIN e : list'[k] = e[j]
       /\ \A j \in DOMAIN list : \E k \in DOMAIN list' : list'[k] = list[j]
       /\ \A j \in DOMAIN e : \E k \in DOMAIN list' : list'[k] = e[j]
  <2>1. PICK q : q = list \o e
    OBVIOUS
  <2>2. /\ q \in Seq(Entry)
        /\ \A k \in DOMAIN q : \/ k \in DOMAIN list /\ q[k] = list[k]
                               \/ k - Len(list) \in DOMAIN e /\ q[k] = e[k - Len(list)]
        /\ \A j \in DOMAIN list : j \in DOMAIN q /\ q[j] = list[j]
        /\ \A j \in DOMAIN e : Len(list) + j \in DOMAIN q /\ q[Len(list) + j] = e[j]
    BY <1>33, <1>34, <2>1, Joined
  <2>3. q = list'
    BY <1>14, <2>1
  <2> QED BY <2>2, <2>3
<1>36. IdsOnce(list')
  <2>1. IdsOnce(e)
    <3> SUFFICES ASSUME NEW k \in DOMAIN e, NEW j \in DOMAIN e, e[k].id = e[j].id PROVE k = j
      BY DEF IdsOnce
    <3>1. e[k].role = e[j].role
      BY <1>5, <1>15, <1>33
    <3> QED BY <3>1, <1>33
  <2>2. \A k \in DOMAIN list, j \in DOMAIN e : list[k].id # e[j].id
    BY <1>15, <1>33
  <2> QED BY <2>1, <2>2, <1>14, <1>33, <1>34, IdsJoined
<1>37. DialogTypes'
  BY <1>2, <1>3, <1>4, <1>14, <1>21, <1>32, <1>35 DEF DialogTypes
<1>38. Numbered(rows, 0, serial)' /\ IdsOnce(rows)' /\ IdsOnce(list)'
  BY <1>32, <1>36 DEF Numbered, IdsOnce
<1>39. ASSUME NEW k \in DOMAIN rows' PROVE OldRow(rows'[k]) \/ NewRow(rows'[k])
  <2>1. OldRow(r[k]) \/ NewRow(r[k])
    BY <1>29, <1>32 DEF OldRow, NewRow
  <2> QED BY <2>1, <1>32 DEF OldRow, NewRow
<1>40. NumbersOK' /\ FadesOK'
  BY <1>4, <1>21, <1>32, <1>38, <1>39, FadesGrown, NumbersGrown
<1>41. \A k \in DOMAIN rows' : rows'[k].look = "shown" /\ rows'[k].active # {}
  <2> SUFFICES ASSUME NEW k \in DOMAIN r PROVE rows'[k].look = "shown" /\ rows'[k].active # {}
    BY <1>32
  <2>1. CASE \E j \in DOMAIN rows : r[k] = rows[j]
    BY <2>1, <1>25, <1>32
  <2>2. CASE r[k].id \in DOMAIN new /\ r[k].active = {} /\ r[k].look = "shown"
    <3>1. new[r[k].id] # {}
      BY <2>2, <1>5, <1>15
    <3> QED BY <2>2, <3>1, <1>32
  <2> QED BY <2>1, <2>2, <1>29
<1>42. ASSUME NEW t, NEW x PROVE Has(t, x)' <=> Has(t, x) \/ (t \in DOMAIN new /\ x \in new[t])
  <2>1. ASSUME Has(t, x)' PROVE Has(t, x) \/ (t \in DOMAIN new /\ x \in new[t])
    <3>1. PICK k \in DOMAIN list' : list'[k].id = t /\ list'[k].role = x
      BY <2>1 DEF Has
    <3> QED BY <3>1, <1>33, <1>35 DEF Has
  <2>2. ASSUME Has(t, x) PROVE Has(t, x)'
    BY <2>2, <1>35 DEF Has
  <2>3. ASSUME t \in DOMAIN new, x \in new[t] PROVE Has(t, x)'
    BY <2>3, <1>33, <1>35 DEF Has
  <2> QED BY <2>1, <2>2, <2>3
<1>43. ASSUME NEW t, NEW x
       PROVE  Shows(t, x)' <=> Shows(t, x) \/ (t \in DOMAIN new /\ x \in new[t])
  <2>1. ASSUME Shows(t, x)' PROVE Shows(t, x) \/ (t \in DOMAIN new /\ x \in new[t])
    <3>1. PICK k \in DOMAIN r : rows'[k].id = t /\ x \in rows'[k].active
      BY <2>1, <1>32 DEF Shows, RolesIn
    <3>2. CASE \E j \in DOMAIN rows : r[k] = rows[j]
      BY <3>1, <3>2, <1>25, <1>32 DEF Shows, RolesIn
    <3>3. CASE r[k].id \in DOMAIN new /\ r[k].active = {}
      <4>1. rows'[k].active = {} \cup new[r[k].id]
        BY <3>3, <1>32
      <4> QED BY <3>1, <3>3, <4>1, <1>32
    <3> QED BY <3>2, <3>3, <1>29
  <2>2. ASSUME Shows(t, x) PROVE Shows(t, x)'
    <3>1. PICK j \in DOMAIN rows : rows[j].look = "shown" /\ rows[j].id = t /\ x \in rows[j].active
      BY <2>2, <1>25 DEF Shows, RolesIn
    <3>2. PICK k \in DOMAIN r : r[k] = rows[j]
      BY <1>30
    <3>3. rows'[k].look = "shown" /\ rows'[k].id = t /\ x \in rows'[k].active
      BY <3>1, <3>2, <1>25, <1>32
    <3> QED BY <3>2, <3>3, <1>32 DEF Shows, RolesIn
  <2>3. ASSUME t \in DOMAIN new, x \in new[t] PROVE Shows(t, x)'
    <3>1. PICK k \in DOMAIN r : r[k].id = t
      BY <2>3, <1>31
    <3>2. rows'[k].active = r[k].active \cup new[t]
      BY <2>3, <3>1, <1>32
    <3>3. x \in rows'[k].active
      BY <2>3, <3>2
    <3> QED BY <3>1, <3>3, <1>32, <1>41 DEF Shows, RolesIn
  <2> QED BY <2>1, <2>2, <2>3
<1>44. Agree'
  BY <1>2, <1>4, <1>42, <1>43 DEF Agree, MembersOK
<1>45. ASSUME ~late PROVE open = TRUE /\ answers' = <<>> /\ Kept'
  <2>1. open = TRUE /\ answers' = <<>> /\ \A k \in DOMAIN list : list[k].id \in touched
    BY <1>1, <1>3, <1>4, <1>45, OneAnswer DEF MembersOK
  <2>2. ASSUME NEW t \in DOMAIN l \ touched, NEW x PROVE Has(t, x)' <=> x \in l[t]
    <3>1. ~Has(t, x) /\ t \in DOMAIN new /\ new[t] = l[t]
      BY <2>1, <2>2, <1>15 DEF Has
    <3> QED BY <3>1, <1>42
  <2>3. Kept'
    BY <1>1, <2>2 DEF Kept, Posts
  <2> QED BY <2>1, <2>3
<1>46. MembersOK'
  BY <1>38, <1>41, <1>44, <1>45 DEF MembersOK
<1>47. OffersOK'
  BY <1>1, <1>32 DEF OffersOK, Assigning
<1> QED BY <1>1, <1>37, <1>40, <1>46, <1>47 DEF DInv

-----------------------------------------------------------------------------
(* Additions. *)

\* One row below the others.
AddedOne(r, t, X, o) ==
    /\ r \in Seq(RowShape) /\ Numbered(r, 0, serial + 1)
    /\ \A i \in DOMAIN r : OldRow(r[i]) \/ NewRow(r[i])
    /\ \A i \in DOMAIN r : \/ i \in DOMAIN rows /\ r[i] = rows[i]
                           \/ /\ r[i].id = t /\ r[i].active = X /\ ~r[i].empty
                              /\ r[i].look = "shown" /\ r[i].offers = o
    /\ \A i \in DOMAIN rows : i \in DOMAIN r /\ r[i] = rows[i]
    /\ \E i \in DOMAIN r : /\ r[i].id = t /\ r[i].active = X /\ r[i].look = "shown"
                           /\ r[i].offers = o
    /\ IdsOnce(rows) /\ (\A i \in DOMAIN rows : rows[i].id # t) => IdsOnce(r)
LEMMA RowAppended ==
    ASSUME DialogTypes, NumbersOK, NEW t \in Things, NEW X \in SUBSET Roles, NEW o \in BOOLEAN,
           NEW r, r = Append(rows, Row(t, serial, X, o))
    PROVE  AddedOne(r, t, X, o)
<1>1. rows \in Seq(RowShape) /\ serial \in Nat
  BY DEF DialogTypes
<1>2. PICK e : e = Row(t, serial, X, o)
  OBVIOUS
<1>3. /\ e \in RowShape /\ e.id = t /\ e.n = serial /\ e.active = X /\ e.empty = FALSE
      /\ e.look = "shown" /\ e.offers = o
  BY <1>1, <1>2 DEF Row, RowShape
<1>4. PICK b : b = <<e>>
  OBVIOUS
<1>5. b \in Seq(RowShape) /\ DOMAIN b = 1..1 /\ b[1] = e
  BY <1>3, <1>4
<1>6. \A j \in DOMAIN b : j = 1 /\ b[j] = e
  BY <1>5
<1>7. Numbered(b, serial, serial + 1) /\ IdsOnce(b)
  BY <1>1, <1>3, <1>6 DEF Numbered, IdsOnce
<1>8. r = rows \o b
  BY <1>1, <1>2, <1>3, <1>4
<1>9. /\ r \in Seq(RowShape)
      /\ \A i \in DOMAIN r : \/ i \in DOMAIN rows /\ r[i] = rows[i]
                             \/ i - Len(rows) \in DOMAIN b /\ r[i] = b[i - Len(rows)]
      /\ \A i \in DOMAIN rows : i \in DOMAIN r /\ r[i] = rows[i]
      /\ \A j \in DOMAIN b : Len(rows) + j \in DOMAIN r /\ r[Len(rows) + j] = b[j]
  <2>1. rows \in Seq(RowShape)
    BY <1>1
  <2>2. b \in Seq(RowShape)
    BY <1>5
  <2>3. /\ r \in Seq(RowShape) /\ Len(r) = Len(rows) + Len(b)
        /\ \A i \in DOMAIN r :
                 \/ i \in DOMAIN rows /\ r[i] = rows[i]
                 \/ i > Len(rows) /\ i - Len(rows) \in DOMAIN b /\ r[i] = b[i - Len(rows)]
        /\ \A i \in DOMAIN rows : i \in DOMAIN r /\ r[i] = rows[i]
        /\ \A j \in DOMAIN b : Len(rows) + j \in DOMAIN r /\ r[Len(rows) + j] = b[j]
    BY ONLY <2>1, <2>2, <1>8, Joined
  <2> QED BY <2>3
<1>10. \A i \in DOMAIN r : \/ i \in DOMAIN rows /\ r[i] = rows[i]
                           \/ r[i] = e
  BY <1>6, <1>9
<1>11. \E i \in DOMAIN r : r[i] = e
  BY <1>5, <1>9
<1>12. Numbered(r, 0, serial + 1)
  <2>1. serial + 1 \in Nat /\ serial <= serial + 1 /\ 0 <= serial
    BY <1>1
  <2> QED BY <2>1, <1>1, <1>5, <1>7, <1>8, NumberedJoined DEF NumbersOK
<1>13. \A i \in DOMAIN r : OldRow(r[i]) \/ NewRow(r[i])
  BY <1>1, <1>3, <1>10 DEF OldRow, NewRow
<1>14. ASSUME IdsOnce(rows), \A i \in DOMAIN rows : rows[i].id # t PROVE IdsOnce(r)
  <2>1. \A i \in DOMAIN rows, j \in DOMAIN b : rows[i].id # b[j].id
    BY <1>3, <1>6, <1>14
  <2> QED BY <2>1, <1>1, <1>5, <1>7, <1>8, <1>14, IdsJoined
<1>15. \A i \in DOMAIN r : \/ i \in DOMAIN rows /\ r[i] = rows[i]
                           \/ /\ r[i].id = t /\ r[i].active = X /\ ~r[i].empty
                              /\ r[i].look = "shown" /\ r[i].offers = o
  BY <1>3, <1>10
<1>16. \E i \in DOMAIN r : /\ r[i].id = t /\ r[i].active = X /\ r[i].look = "shown"
                           /\ r[i].offers = o
  BY <1>3, <1>11
<1> QED BY <1>9, <1>12, <1>13, <1>14, <1>15, <1>16 DEF AddedOne

\* Who is in the list already is not added again.
LEMMA StepAddAgain ==
    ASSUME DialogsAssumption, DInv, ~Waiting, NEW t \in Things,
           row' = None, touched' = touched \cup {t},
           UNCHANGED <<kind, open, answers, list, count, rows, fades, serial, offered, listed,
                       late>>
    PROVE  DInv'
<1>1. Roles' = Roles /\ Listings' = Listings /\ RowShape' = RowShape /\ Entry' = Entry
  BY SameKind
<1>2. DialogTypes' /\ OffersOK'
  BY <1>1 DEF DInv, DialogTypes, OffersOK, Assigning
<1>3. NumbersOK' /\ FadesOK'
  <2>1. Numbered(rows, 0, serial)' /\ serial' \in Nat /\ serial <= serial'
    BY DEF DInv, DialogTypes, NumbersOK, Numbered
  <2>2. \A i \in DOMAIN rows' : OldRow(rows'[i])
    BY DEF OldRow
  <2>3. rows' \in Seq(RowShape)
    BY DEF DInv, DialogTypes
  <2> QED BY <2>1, <2>2, <2>3, FadesGrown, NumbersGrown DEF DInv
<1>4. Agree => Agree'
  BY <1>1 DEF Agree, Has, Shows, RolesIn
<1>5. Kept => Kept'
  BY <1>1 DEF Kept, Posts, Has
<1>6. IdsOnce(rows)' = IdsOnce(rows) /\ IdsOnce(list)' = IdsOnce(list)
  BY DEF IdsOnce
<1>7. ASSUME kind = "members" PROVE MembersOK'
  BY <1>4, <1>5, <1>6, <1>7 DEF DInv, MembersOK
<1>8. ASSUME kind \in Assigning, ~late PROVE AssigningOK'
  <2>1. \A i : RolesIn(i)' = RolesIn(i)
    BY DEF RolesIn
  <2> QED BY <1>4, <1>5, <1>6, <1>8, <2>1 DEF DInv, AssigningOK
<1>9. ASSUME kind \in Posting PROVE PostingOK'
  BY <1>5, <1>9 DEF DInv, PostingOK
<1> QED BY <1>2, <1>3, <1>7, <1>8, <1>9 DEF DInv, Assigning, Posting

LEMMA StepAddRow ==
    ASSUME DialogsAssumption, DInv, ~Waiting, NEW t \in Things, open = TRUE, RowsOf(t) = {},
           \/ AddMember(t) \/ AddUser(t) \/ AddOrganization(t)
           \/ AddAdministrator(t) \/ AddTrusted(t),
           row' = None, touched' = touched \cup {t},
           UNCHANGED <<kind, open, answers, fades, offered, listed, late>>
    PROVE  DInv'
<1>1. Roles' = Roles /\ Listings' = Listings /\ RowShape' = RowShape /\ Entry' = Entry
  BY SameKind
<1>2. kind \in Kinds /\ DialogTypes /\ NumbersOK /\ FadesOK /\ offered \in BOOLEAN
  BY DEF DInv, DialogTypes
<1> DEFINE o == kind \in Assigning => offered
           X == IF kind = "members" THEN {"member"}
                ELSE IF kind \in Assigning THEN {} ELSE {"listed"}
<1>3. X \in SUBSET Roles
  BY <1>2, KindIs
<1>4. rows' = Append(rows, Row(t, serial, X, o)) /\ serial' = serial + 1
  BY DEF AddMember, AddUser, AddOrganization, AddAdministrator, AddTrusted, AddAssigned, AddRow
<1>o. o \in BOOLEAN
  OBVIOUS
<1>5. AddedOne(rows', t, X, o)
  <2> HIDE DEF X, o
  <2>1. PICK r : r = Append(rows, Row(t, serial, X, o))
    OBVIOUS
  <2>2. AddedOne(r, t, X, o)
    BY <1>2, <1>3, <1>o, <2>1, RowAppended
  <2> QED BY <1>4, <2>1, <2>2
<1>6. \A i \in DOMAIN rows : rows[i].id # t
  BY DEF RowsOf
<1>7. /\ kind = "members" => list' = Append(list, [id |-> t, role |-> "member"])
      /\ kind # "members" => list' = list
      /\ kind \in Assigning => count' = [count EXCEPT ![t] = IF @ \in {None, NaN} THEN 0 ELSE @]
      /\ kind \notin Assigning => count' = count
  BY DEF AddMember, AddUser, AddOrganization, AddAdministrator, AddTrusted, AddAssigned, Assigning
<1>8. list' \in Seq(Entry)
  <2>1. CASE kind = "members"
    <3>1. PICK e : e = [id |-> t, role |-> "member"]
      OBVIOUS
    <3>2. e \in Entry
      BY <1>2, <2>1, <3>1, KindIs DEF Entry
    <3>3. list \in Seq(Entry)
      BY <1>2 DEF DialogTypes
    <3>4. list' = Append(list, e)
      BY <1>7, <2>1, <3>1
    <3> QED BY <3>2, <3>3, <3>4
  <2>2. CASE kind # "members"
    BY <2>2, <1>2, <1>7 DEF DialogTypes
  <2> QED BY <2>1, <2>2
<1>9. count' \in [Things -> Int \cup {None, NaN}]
  BY <1>2, <1>7 DEF DialogTypes
<1>10. DialogTypes'
  BY <1>1, <1>2, <1>4, <1>5, <1>8, <1>9 DEF DialogTypes, AddedOne
<1>11. NumbersOK' /\ FadesOK'
  <2>1. serial' \in Nat /\ serial <= serial'
    BY <1>2, <1>4 DEF DialogTypes
  <2>2. Numbered(rows, 0, serial)'
    BY <1>4, <1>5 DEF AddedOne, Numbered
  <2>3. rows' \in Seq(RowShape) /\ \A i \in DOMAIN rows' : OldRow(rows'[i]) \/ NewRow(rows'[i])
    BY <1>5 DEF AddedOne
  <2> QED BY <1>2, <2>1, <2>2, <2>3, FadesGrown, NumbersGrown
<1>12. IdsOnce(rows) => IdsOnce(rows)'
  BY <1>5, <1>6 DEF AddedOne, IdsOnce
\* A row that is added while roles have not come has none that the server sent.
<1>r. ASSUME kind \in Assigning => ~late
      PROVE  /\ \A k \in DOMAIN rows' :
                   \/ k \in DOMAIN rows /\ rows'[k] = rows[k] /\ RolesIn(k)' = RolesIn(k)
                   \/ /\ rows'[k].id = t /\ rows'[k].look = "shown"
                      /\ RolesIn(k)' = X
             /\ \A k \in DOMAIN rows :
                   k \in DOMAIN rows' /\ rows'[k] = rows[k] /\ RolesIn(k)' = RolesIn(k)
             /\ \E k \in DOMAIN rows' : /\ rows'[k].id = t /\ rows'[k].look = "shown"
                                        /\ RolesIn(k)' = X
  <2>1. \A k : k \in DOMAIN rows /\ k \in DOMAIN rows' /\ rows'[k] = rows[k]
                  => RolesIn(k)' = RolesIn(k)
    BY DEF RolesIn
  <2>2. ~o => X = {} /\ listed' = None
    BY <1>r DEF DInv, AssigningOK, Assigning
  <2> HIDE DEF X, o
  <2>3. \A k : k \in DOMAIN rows' /\ rows'[k].active = X /\ rows'[k].offers = o
                  => RolesIn(k)' = X
    BY <2>2, <1>o DEF RolesIn
  <2>4. \A k \in DOMAIN rows' :
           \/ k \in DOMAIN rows /\ rows'[k] = rows[k]
           \/ /\ rows'[k].id = t /\ rows'[k].look = "shown"
              /\ rows'[k].active = X /\ rows'[k].offers = o
    BY <1>5 DEF AddedOne
  <2>5. /\ \A k \in DOMAIN rows : k \in DOMAIN rows' /\ rows'[k] = rows[k]
        /\ \E k \in DOMAIN rows' : /\ rows'[k].id = t /\ rows'[k].look = "shown"
                                   /\ rows'[k].active = X /\ rows'[k].offers = o
    BY <1>5 DEF AddedOne
  <2> QED BY <2>1, <2>3, <2>4, <2>5
<1>13. ASSUME kind \in Assigning => ~late, NEW u, NEW x
       PROVE  Shows(u, x)' <=> Shows(u, x) \/ (u = t /\ x \in X)
  <2> HIDE DEF X
  <2>1. ASSUME Shows(u, x)' PROVE Shows(u, x) \/ (u = t /\ x \in X)
    <3>1. PICK k \in DOMAIN rows' : /\ rows'[k].look = "shown" /\ rows'[k].id = u
                                    /\ x \in RolesIn(k)'
      BY <2>1 DEF Shows
    <3> QED BY <3>1, <1>r, <1>13 DEF Shows
  <2>2. ASSUME Shows(u, x) PROVE Shows(u, x)'
    <3>1. PICK k \in DOMAIN rows : /\ rows[k].look = "shown" /\ rows[k].id = u
                                   /\ x \in RolesIn(k)
      BY <2>2 DEF Shows
    <3>2. k \in DOMAIN rows' /\ rows'[k] = rows[k] /\ RolesIn(k)' = RolesIn(k)
      BY <3>1, <1>r, <1>13
    <3> QED BY <3>1, <3>2 DEF Shows
  <2>3. ASSUME u = t, x \in X PROVE Shows(u, x)'
    <3>1. PICK k \in DOMAIN rows' : /\ rows'[k].id = t /\ rows'[k].look = "shown"
                                    /\ RolesIn(k)' = X
      BY <1>r, <1>13
    <3> QED BY <2>3, <3>1 DEF Shows
  <2> QED BY <2>1, <2>2, <2>3
<1>14. ASSUME kind = "members" PROVE MembersOK'
  <2>1. MembersOK /\ X = {"member"} /\ kind \notin Posting
    BY <1>2, <1>14, KindIs DEF DInv
  <2>2. PICK e : e = [id |-> t, role |-> "member"]
    OBVIOUS
  <2>3. list' = Append(list, e) /\ list \in Seq(Entry) /\ e \in Entry /\ e.id = t /\ e.role = "member"
    BY <1>2, <1>7, <1>14, <2>2, KindIs DEF DialogTypes, Entry
  <2>4. /\ \A k \in DOMAIN list' : \/ k \in DOMAIN list /\ list'[k] = list[k]
                                   \/ k = Len(list) + 1 /\ list'[k] = e
        /\ \A k \in DOMAIN list : k \in DOMAIN list' /\ list'[k] = list[k]
        /\ Len(list) + 1 \in DOMAIN list' /\ list'[Len(list) + 1] = e
    BY <2>3
  <2>5. \A k \in DOMAIN list : list[k].id # t
    <3> SUFFICES ASSUME NEW k \in DOMAIN list PROVE list[k].id # t
      OBVIOUS
    <3>1. list[k] \in Entry
      BY <2>3
    <3>2. list[k].id \in Things /\ list[k].role \in Roles /\ Has(list[k].id, list[k].role)
      BY <3>1 DEF Entry, Has
    <3> QED BY <3>2, <2>1, <1>6 DEF MembersOK, Agree, Shows
  <2>6. IdsOnce(list)'
    BY <2>1, <2>3, <2>4, <2>5 DEF MembersOK, IdsOnce
  <2>7. ASSUME NEW u, NEW x PROVE Has(u, x)' <=> Has(u, x) \/ (u = t /\ x = "member")
    BY <2>3, <2>4 DEF Has
  <2>8. Agree'
    BY <1>1, <1>2, <1>13, <1>14, <2>1, <2>7, KindIs DEF MembersOK, Agree
  <2>9. \A i \in DOMAIN rows' : rows'[i].active = {} => rows'[i].empty
    BY <1>5, <2>1 DEF AddedOne, MembersOK
  <2>10. answers # <<>> =>
            \A i \in DOMAIN rows' : rows'[i].look = "shown" /\ rows'[i].active # {}
    BY <1>5, <2>1 DEF AddedOne, MembersOK
  <2>11. ASSUME ~late, answers # <<>>
         PROVE  Len(answers) = 1 /\ \A k \in DOMAIN list' : list'[k].id \in touched'
    BY <2>1, <2>3, <2>4, <2>11 DEF MembersOK
  <2>12. ASSUME Kept PROVE Kept'
    <3>1. \A u \in DOMAIN listed \ touched' : u # t
      OBVIOUS
    <3> QED BY <3>1, <2>1, <2>7, <2>12, <1>1 DEF Kept, Posts
  <2> QED BY <1>12, <2>1, <2>6, <2>8, <2>9, <2>10, <2>11, <2>12 DEF MembersOK
<1>15. ASSUME kind \in Assigning, ~late PROVE AssigningOK'
  <2>1. AssigningOK /\ X = {} /\ kind \notin Posting /\ list' = list
    BY <1>2, <1>7, <1>15, KindIs DEF DInv
  <2>2. count[t] = None
    BY <2>1, <1>6 DEF AssigningOK
  <2>3. /\ count'[t] = 0 /\ \A u \in Things : u # t => count'[u] = count[u]
    BY <1>2, <1>7, <1>15, <2>2 DEF DialogTypes
  <2>4. \A i \in DOMAIN rows' : rows'[i].id \in Things
    <3>1. \A i \in DOMAIN rows' : rows'[i] \in RowShape
      BY <1>5 DEF AddedOne
    <3> QED BY <3>1 DEF RowShape
  <2>5. ASSUME NEW i \in DOMAIN rows', rows'[i].look = "shown"
        PROVE  count'[rows'[i].id] = Cardinality(RolesIn(i)')
    <3>1. CASE i \in DOMAIN rows /\ rows'[i] = rows[i] /\ RolesIn(i)' = RolesIn(i)
      BY <3>1, <1>6, <2>1, <2>3, <2>4, <2>5 DEF AssigningOK
    <3>2. CASE rows'[i].id = t /\ RolesIn(i)' = X
      BY <3>2, <2>1, <2>3, FS_EmptySet
    <3> QED BY <3>1, <3>2, <1>r, <1>15
  <2>6. ASSUME NEW u \in Things,
               \A i \in DOMAIN rows' : rows'[i].look = "shown" => rows'[i].id # u
        PROVE  count'[u] = None
    <3>1. u # t /\ \A i \in DOMAIN rows : rows[i].look = "shown" => rows[i].id # u
      BY <1>5, <2>6 DEF AddedOne
    <3> QED BY <3>1, <2>1, <2>3 DEF AssigningOK
  <2>7. Agree => Agree'
    BY <1>1, <1>13, <1>15, <2>1 DEF Agree, Has
  <2>8. Kept => Kept'
    BY <1>1, <2>1 DEF Kept, Posts, Has
  <2>9. answers # <<>> => /\ Len(answers) = 1 /\ listed = None
                          /\ \A i \in DOMAIN rows' : rows'[i].look = "shown" /\ rows'[i].active = {}
    BY <1>5, <2>1 DEF AddedOne, AssigningOK
  <2> QED BY <1>12, <2>1, <2>5, <2>6, <2>7, <2>8, <2>9 DEF AssigningOK
<1>16. ASSUME kind \in Posting PROVE PostingOK'
  <2>1. PostingOK /\ X = {"listed"}
    BY <1>2, <1>16, KindIs DEF DInv
  <2>2. \A i \in DOMAIN rows' : rows'[i].active = {"listed"}
    BY <1>5, <2>1 DEF AddedOne, PostingOK
  <2>3. ASSUME NEW u, u # t
        PROVE  (\E i \in DOMAIN rows' : rows'[i].id = u) <=> (\E i \in DOMAIN rows : rows[i].id = u)
    BY <1>5, <2>3 DEF AddedOne
  <2>4. ASSUME Kept PROVE Kept'
    <3>1. \A u \in DOMAIN listed \ touched' : u # t
      OBVIOUS
    <3> QED BY <3>1, <2>3, <2>4, <1>1, <1>16 DEF Kept, Posts
  <2> QED BY <2>1, <2>2, <2>4 DEF PostingOK
<1>17. OffersOK'
  BY <1>5 DEF DInv, OffersOK, AddedOne, Assigning
<1> QED BY <1>10, <1>11, <1>14, <1>15, <1>16, <1>17 DEF DInv, Assigning, Posting

LEMMA StepAdd == ASSUME DialogsAssumption, DInv, NEW t \in Things, Add(t), ~hasty' PROVE DInv'
<1>1. /\ open = TRUE /\ ~Waiting /\ row' = None /\ touched' = touched \cup {t}
      /\ UNCHANGED <<kind, open, answers, fades, offered, listed, late>>
  BY DEF Add, Editing, DInv, DialogTypes
<1>2. CASE RowsOf(t) # {}
  <2>1. UNCHANGED <<rows, serial, list, count>>
    BY <1>2 DEF Add
  <2> QED BY <1>1, <2>1, StepAddAgain
<1>3. CASE RowsOf(t) = {}
  <2>1. \/ AddMember(t) \/ AddUser(t) \/ AddOrganization(t)
        \/ AddAdministrator(t) \/ AddTrusted(t)
    BY <1>3 DEF Add
  <2> QED BY <1>1, <1>3, <2>1, StepAddRow
<1> QED BY <1>2, <1>3

-----------------------------------------------------------------------------
(* Removals. *)

\* A row that begins to fade.
Faded(r, i) ==
    /\ r \in Seq(RowShape) /\ DOMAIN r = DOMAIN rows
    /\ \A j \in DOMAIN rows : /\ r[j].id = rows[j].id /\ r[j].n = rows[j].n
                              /\ r[j].active = rows[j].active /\ r[j].empty = rows[j].empty
                              /\ r[j].offers = rows[j].offers
                              /\ j # i => r[j].look = rows[j].look
    /\ r[i].look = "fading"
LEMMA RowFaded ==
    ASSUME rows \in Seq(RowShape), NEW i \in DOMAIN rows,
           NEW r, r = [rows EXCEPT ![i].look = "fading"]
    PROVE  Faded(r, i)
<1>1. DOMAIN rows = 1..Len(rows) /\ Len(rows) \in Nat /\ \A j \in DOMAIN rows : rows[j] \in RowShape
  OBVIOUS
<1>2. DOMAIN r = DOMAIN rows
  OBVIOUS
<1>3. \A j \in DOMAIN rows : r[j] = IF j = i THEN [rows[i] EXCEPT !.look = "fading"] ELSE rows[j]
  OBVIOUS
<1>4. ASSUME NEW j \in DOMAIN rows
      PROVE  /\ r[j] \in RowShape
             /\ r[j].id = rows[j].id /\ r[j].n = rows[j].n
             /\ r[j].active = rows[j].active /\ r[j].empty = rows[j].empty
             /\ r[j].offers = rows[j].offers
             /\ j # i => r[j].look = rows[j].look
             /\ j = i => r[j].look = "fading"
  BY <1>1, <1>3 DEF RowShape
<1>5. r \in [1..Len(rows) -> RowShape]
  <2>1. r = [j \in 1..Len(rows) |-> r[j]]
    BY <1>1
  <2> QED BY <2>1, <1>1, <1>4
<1> QED BY <1>1, <1>2, <1>4, <1>5 DEF Faded

LEMMA StepRemoveRow ==
    ASSUME DialogsAssumption, DInv, NEW i \in DOMAIN rows, RemoveRow(i), ~hasty' PROVE DInv'
<1> DEFINE t == rows[i].id
<1>1. /\ open = TRUE /\ ~Waiting /\ (answers = <<>> \/ kind \in Posting)
      /\ RemoveFrom(t) /\ row' = rows[i].n /\ fades' = fades \cup {rows[i].n}
      /\ rows' = [rows EXCEPT ![i].look = "fading"]
      /\ touched' = touched \cup {t}
      /\ UNCHANGED <<kind, open, answers, serial, offered, listed, late>>
  BY DEF RemoveRow, Editing, DInv, DialogTypes
<1>2. kind \in Kinds /\ DialogTypes /\ NumbersOK /\ FadesOK
  BY DEF DInv, DialogTypes
<1>3. Roles' = Roles /\ Listings' = Listings /\ RowShape' = RowShape /\ Entry' = Entry
  BY <1>1, SameKind
<1>4. /\ rows \in Seq(RowShape) /\ rows[i] \in RowShape /\ t \in Things /\ rows[i].n \in Nat
      /\ rows[i].n < serial
  <2>1. rows \in Seq(RowShape)
    BY <1>2 DEF DialogTypes
  <2>2. rows[i] \in RowShape
    BY <2>1
  <2> QED BY <1>2, <2>1, <2>2 DEF RowShape, NumbersOK, Numbered
<1>5. Faded(rows', i)
  <2>1. PICK r : r = [rows EXCEPT ![i].look = "fading"]
    OBVIOUS
  <2>2. Faded(r, i)
    BY <1>4, <2>1, RowFaded
  <2> QED BY <1>1, <2>1, <2>2
<1> HIDE DEF t
<1>6. /\ kind = "members" => list' = Without(OfThing(t)) /\ count' = count
      /\ kind \in Assigning => list' = Without(OfThing(t)) /\ count' = [count EXCEPT ![t] = None]
      /\ kind \in Posting => list' = list /\ count' = count
  BY <1>1 DEF RemoveFrom, RemoveMember, RemoveUser, RemoveOrganization, RemoveAdministrator,
              RemoveTrusted, Assigning, Posting
<1>7. list \in Seq(Entry) /\ count \in [Things -> Int \cup {None, NaN}]
  BY <1>2 DEF DialogTypes
<1>8. ASSUME kind = "members" \/ kind \in Assigning
      PROVE  /\ list' \in Seq(Entry) /\ (IdsOnce(list) => IdsOnce(list'))
             /\ \A u \in Things, x \in Roles : Has(u, x)' <=> Has(u, x) /\ u # t
  <2>1. PICK r : r = Without(OfThing(t))
    OBVIOUS
  <2>2. /\ r \in Seq(Entry)
        /\ \A m \in DOMAIN r : \E k \in DOMAIN list : r[m] = list[k] /\ list[k] \notin OfThing(t)
        /\ \A k \in DOMAIN list : list[k] \notin OfThing(t) => \E m \in DOMAIN r : r[m] = list[k]
        /\ IdsOnce(list) => IdsOnce(r)
    BY <1>7, <2>1, WithoutIs
  <2>3. list' = r
    BY <1>6, <1>8, <2>1
  <2>4. \A k \in DOMAIN list : list[k] \in OfThing(t) <=> list[k].id = t
    <3>1. \A k \in DOMAIN list : list[k] \in Entry
      BY <1>7
    <3> QED BY <3>1 DEF OfThing, Entry
  <2>5. ASSUME NEW u \in Things, NEW x \in Roles PROVE Has(u, x)' <=> Has(u, x) /\ u # t
    <3>1. ASSUME Has(u, x)' PROVE Has(u, x) /\ u # t
      <4>1. PICK m \in DOMAIN r : r[m].id = u /\ r[m].role = x
        BY <3>1, <2>3 DEF Has
      <4> QED BY <4>1, <2>2, <2>4 DEF Has
    <3>2. ASSUME Has(u, x), u # t PROVE Has(u, x)'
      BY <3>2, <2>2, <2>3, <2>4 DEF Has
    <3> QED BY <3>1, <3>2
  <2> QED BY <2>2, <2>3, <2>5
<1>9. list' \in Seq(Entry) /\ count' \in [Things -> Int \cup {None, NaN}]
  BY <1>2, <1>6, <1>7, <1>8, KindIs
<1>10. DialogTypes'
  BY <1>1, <1>2, <1>3, <1>4, <1>5, <1>9 DEF DialogTypes, Faded
<1>11. NumbersOK'
  <2>1. serial' = serial /\ None \notin Nat /\ row' = rows[i].n
    BY <1>1 DEF DialogsAssumption
  <2>2. Numbered(rows, 0, serial)'
    BY <1>2, <1>5, <2>1 DEF NumbersOK, Numbered, Faded
  <2>3. \A n \in fades' : n < serial'
    BY <1>1, <1>2, <1>4 DEF NumbersOK
  <2> QED BY <1>4, <2>1, <2>2, <2>3 DEF NumbersOK
<1>12. FadesOK'
  <2> SUFFICES ASSUME NEW j \in DOMAIN rows
               PROVE  /\ rows'[j].n \in fades' \cup {row'} => rows'[j].look # "shown"
                      /\ rows'[j].look # "shown" =>
                            /\ rows'[j].id \in touched'
                            /\ kind # "members" => /\ rows'[j].look = "fading"
                                                   /\ rows'[j].n = row' /\ row' \in fades'
    BY <1>1, <1>5 DEF FadesOK, Faded
  <2>1. CASE j = i
    <3>1. rows'[i].look = "fading" /\ rows'[i].id = t /\ rows'[i].n = rows[i].n
      BY <1>5 DEF Faded, t
    <3> QED BY <1>1, <2>1, <3>1
  <2>2. CASE j # i
    <3>1. rows'[j].look = rows[j].look /\ rows'[j].id = rows[j].id /\ rows'[j].n = rows[j].n
      BY <1>5, <2>2 DEF Faded
    <3>2. rows[j].n # rows[i].n
      BY <1>2, <2>2 DEF NumbersOK, Numbered
    <3>3. kind # "members" => rows[j].look = "shown"
      BY <1>1, <1>2, AllShown
    <3> QED BY <1>1, <1>2, <3>1, <3>2, <3>3 DEF FadesOK
  <2> QED BY <2>1, <2>2
<1>13. IdsOnce(rows) => IdsOnce(rows)'
  BY <1>5 DEF IdsOnce, Faded
<1>r. \A j \in DOMAIN rows : RolesIn(j)' = RolesIn(j)
  BY <1>1, <1>5 DEF RolesIn, Faded
<1>14. ASSUME IdsOnce(rows)
       PROVE  \A u \in Things, x \in Roles : Shows(u, x)' <=> Shows(u, x) /\ u # t
  <2> SUFFICES ASSUME NEW u \in Things, NEW x \in Roles
               PROVE  Shows(u, x)' <=> Shows(u, x) /\ u # t
    OBVIOUS
  <2>1. ASSUME Shows(u, x)' PROVE Shows(u, x) /\ u # t
    <3>1. PICK j \in DOMAIN rows : /\ rows'[j].look = "shown" /\ rows'[j].id = u
                                   /\ x \in RolesIn(j)
      BY <2>1, <1>5, <1>r DEF Shows, Faded
    <3>2. j # i
      BY <3>1, <1>5 DEF Faded
    <3> QED BY <3>1, <3>2, <1>5, <1>14 DEF Shows, Faded, IdsOnce, t
  <2>2. ASSUME Shows(u, x), u # t PROVE Shows(u, x)'
    BY <2>2, <1>5, <1>r DEF Shows, Faded, t
  <2> QED BY <2>1, <2>2
<1>15. Kept => Kept'
  <2> SUFFICES ASSUME Kept, listed # None, NEW u \in DOMAIN listed \ touched', NEW x \in Roles
               PROVE  Posts(u, x)' <=> x \in listed[u]
    BY <1>1, <1>3 DEF Kept
  <2>1. u # t /\ (Posts(u, x) <=> x \in listed[u])
    BY <1>1 DEF Kept
  <2>2. CASE kind \in Posting
    <3>1. (\E j \in DOMAIN rows' : rows'[j].id = u) <=> (\E j \in DOMAIN rows : rows[j].id = u)
      BY <1>5 DEF Faded
    <3> QED BY <1>1, <2>1, <2>2, <3>1 DEF Posts
  <2>3. CASE kind \notin Posting
    <3>1. Has(u, x)' <=> Has(u, x)
      <4>1. PICK r : r = Without(OfThing(t))
        OBVIOUS
      <4>2. /\ \A m \in DOMAIN r : \E k \in DOMAIN list : r[m] = list[k]
            /\ \A k \in DOMAIN list : list[k] \notin OfThing(t) => \E m \in DOMAIN r : r[m] = list[k]
        BY <1>7, <4>1, WithoutIs
      <4>3. list' = r
        BY <1>2, <1>6, <2>3, <4>1, KindIs
      <4>4. \A k \in DOMAIN list : list[k].id = u => list[k] \notin OfThing(t)
        BY <2>1 DEF OfThing
      <4> QED BY <4>2, <4>3, <4>4 DEF Has
    <3> QED BY <1>1, <2>1, <2>3, <3>1 DEF Posts
  <2> QED BY <2>2, <2>3
<1>16. ASSUME kind = "members" PROVE MembersOK'
  <2>1. MembersOK /\ kind \notin Posting
    BY <1>2, <1>16, KindIs DEF DInv
  <2>2. IdsOnce(list)' /\ Agree'
    BY <1>3, <1>8, <1>14, <1>16, <2>1 DEF MembersOK, Agree, IdsOnce
  <2>3. \A j \in DOMAIN rows' : rows'[j].active = {} => rows'[j].empty
    BY <1>5, <2>1 DEF MembersOK, Faded
  <2> QED BY <1>1, <1>13, <1>15, <2>1, <2>2, <2>3 DEF MembersOK
<1>17. ASSUME kind \in Assigning, ~late PROVE AssigningOK'
  <2>1. AssigningOK /\ kind \notin Posting
    BY <1>2, <1>17, KindIs DEF DInv
  <2>2. /\ count'[t] = None /\ \A u \in Things : u # t => count'[u] = count[u]
    BY <1>4, <1>6, <1>7, <1>17
  <2>3. ASSUME NEW j \in DOMAIN rows', rows'[j].look = "shown"
        PROVE  count'[rows'[j].id] = Cardinality(RolesIn(j)')
    <3>1. j # i /\ j \in DOMAIN rows /\ rows[j] \in RowShape
      BY <2>3, <1>4, <1>5 DEF Faded
    <3>2. rows[j].id # t /\ rows[j].id \in Things
      BY <3>1, <2>1 DEF AssigningOK, IdsOnce, t, RowShape
    <3>3. RolesIn(j)' = RolesIn(j)
      BY <3>1, <1>r
    <3> QED BY <3>1, <3>2, <3>3, <2>1, <2>2, <2>3, <1>5 DEF AssigningOK, Faded
  <2>4. ASSUME NEW u \in Things,
               \A j \in DOMAIN rows' : rows'[j].look = "shown" => rows'[j].id # u
        PROVE  count'[u] = None
    <3>1. CASE u = t
      BY <3>1, <2>2
    <3>2. CASE u # t
      <4>1. \A j \in DOMAIN rows : rows[j].look = "shown" => rows[j].id # u
        BY <3>2, <2>4, <1>5 DEF Faded, t
      <4> QED BY <4>1, <3>2, <2>1, <2>2 DEF AssigningOK
    <3> QED BY <3>1, <3>2
  <2>5. Agree => Agree'
    BY <1>3, <1>8, <1>14, <1>17, <2>1 DEF AssigningOK, Agree
  <2> QED BY <1>1, <1>13, <1>15, <2>1, <2>3, <2>4, <2>5 DEF AssigningOK
<1>18. ASSUME kind \in Posting PROVE PostingOK'
  BY <1>1, <1>5, <1>15, <1>18 DEF DInv, PostingOK, Faded
<1>19. OffersOK'
  BY <1>1, <1>5 DEF DInv, OffersOK, Faded, Assigning
<1> QED BY <1>1, <1>10, <1>11, <1>12, <1>16, <1>17, <1>18, <1>19 DEF DInv

\* A row that goes, and one that stays and is not displayed.
Gone(r, n) ==
    /\ r \in Seq(RowShape)
    /\ \E h \in [DOMAIN r -> DOMAIN rows] :
          /\ \A m \in DOMAIN r :
                /\ rows[h[m]].n # row
                /\ r[m].id = rows[h[m]].id /\ r[m].n = rows[h[m]].n
                /\ r[m].active = rows[h[m]].active /\ r[m].empty = rows[h[m]].empty
                /\ r[m].offers = rows[h[m]].offers
                /\ r[m].look = IF rows[h[m]].n = n THEN "faded" ELSE rows[h[m]].look
          /\ \A m, k \in DOMAIN r : h[m] = h[k] => m = k
          /\ \A i \in DOMAIN rows : rows[i].n # row => \E m \in DOMAIN r : h[m] = i
NotDisplayed(r, left, n) ==
    /\ r \in Seq(RowShape) /\ DOMAIN r = DOMAIN left
    /\ \A m \in DOMAIN left :
          /\ r[m].id = left[m].id /\ r[m].n = left[m].n
          /\ r[m].active = left[m].active /\ r[m].empty = left[m].empty
          /\ r[m].offers = left[m].offers
          /\ r[m].look = IF left[m].n = n THEN "faded" ELSE left[m].look
LEMMA RowNotDisplayed ==
    ASSUME NEW left \in Seq(RowShape), NEW n,
           NEW r, r = [i \in DOMAIN left |->
                         IF left[i].n = n THEN [left[i] EXCEPT !.look = "faded"] ELSE left[i]]
    PROVE  NotDisplayed(r, left, n)
<1>1. DOMAIN left = 1..Len(left) /\ Len(left) \in Nat /\ \A m \in DOMAIN left : left[m] \in RowShape
  OBVIOUS
<1>2. DOMAIN r = DOMAIN left
  OBVIOUS
<1>3. ASSUME NEW m \in DOMAIN left
      PROVE  /\ r[m] \in RowShape
             /\ r[m].id = left[m].id /\ r[m].n = left[m].n
             /\ r[m].active = left[m].active /\ r[m].empty = left[m].empty
             /\ r[m].offers = left[m].offers
             /\ r[m].look = IF left[m].n = n THEN "faded" ELSE left[m].look
  <2>1. left[m] \in RowShape
    BY <1>1
  <2>2. r[m] = IF left[m].n = n THEN [left[m] EXCEPT !.look = "faded"] ELSE left[m]
    OBVIOUS
  <2> QED BY <2>1, <2>2 DEF RowShape
<1>4. r \in [1..Len(left) -> RowShape]
  <2>1. r = [m \in 1..Len(left) |-> r[m]]
    BY <1>1
  <2> QED BY <2>1, <1>1, <1>3
<1>5. r \in Seq(RowShape)
  BY <1>1, <1>4
<1> QED BY <1>2, <1>3, <1>5 DEF NotDisplayed

LEMMA RowGone ==
    ASSUME rows \in Seq(RowShape), NEW n, NEW at,
           \A i : i \in at <=> i \in DOMAIN rows /\ rows[i].n # row,
           NEW left, left = SelectPositions(rows, at), NEW r, NotDisplayed(r, left, n)
    PROVE  Gone(r, n)
<1>1. \A i : i \in at <=> i \in DOMAIN rows /\ rows[i].n # row
  OBVIOUS
<1>2. PICK h \in [DOMAIN left -> DOMAIN rows] :
         /\ \A m \in DOMAIN left : h[m] \in at /\ left[m] = rows[h[m]]
         /\ \A m, k \in DOMAIN left : h[m] = h[k] => m = k
         /\ \A i \in DOMAIN rows : i \in at => \E m \in DOMAIN left : h[m] = i
  BY Picks
<1>3. /\ r \in Seq(RowShape) /\ DOMAIN r = DOMAIN left
      /\ \A m \in DOMAIN left :
             /\ r[m].id = left[m].id /\ r[m].n = left[m].n
             /\ r[m].active = left[m].active /\ r[m].empty = left[m].empty
             /\ r[m].offers = left[m].offers
             /\ r[m].look = IF left[m].n = n THEN "faded" ELSE left[m].look
  BY DEF NotDisplayed
<1>4. h \in [DOMAIN r -> DOMAIN rows]
  BY <1>2, <1>3
<1>5. \A m \in DOMAIN r :
          /\ rows[h[m]].n # row
          /\ r[m].id = rows[h[m]].id /\ r[m].n = rows[h[m]].n
          /\ r[m].active = rows[h[m]].active /\ r[m].empty = rows[h[m]].empty
          /\ r[m].offers = rows[h[m]].offers
          /\ r[m].look = IF rows[h[m]].n = n THEN "faded" ELSE rows[h[m]].look
  BY <1>1, <1>2, <1>3
<1>6. \A i \in DOMAIN rows : rows[i].n # row => \E m \in DOMAIN r : h[m] = i
  <2> SUFFICES ASSUME NEW i \in DOMAIN rows, rows[i].n # row PROVE \E m \in DOMAIN r : h[m] = i
    OBVIOUS
  <2>1. \E m \in DOMAIN left : h[m] = i
    BY <1>1, <1>2
  <2> QED BY <2>1, <1>3
<1>7. \A m, k \in DOMAIN r : h[m] = h[k] => m = k
  BY <1>2, <1>3
<1> QED BY <1>3, <1>4, <1>5, <1>6, <1>7 DEF Gone

LEMMA StepFadeEnd == ASSUME DialogsAssumption, DInv, NEW n \in fades, FadeEnd(n) PROVE DInv'
<1>1. /\ fades' = fades \ {n}
      /\ UNCHANGED <<kind, open, answers, list, count, row, serial, offered, listed, touched,
                     late>>
  BY DEF FadeEnd
<1>2. kind \in Kinds /\ DialogTypes /\ NumbersOK /\ FadesOK
  BY DEF DInv, DialogTypes
<1>3. Roles' = Roles /\ Listings' = Listings /\ RowShape' = RowShape /\ Entry' = Entry
  BY <1>1, SameKind
<1>4. Gone(rows', n)
  <2>1. PICK at : at = {i \in DOMAIN rows : rows[i].n # row}
    OBVIOUS
  <2>2. PICK left : left = SelectPositions(rows, at)
    OBVIOUS
  <2>3. PICK r : r = [i \in DOMAIN left |->
                        IF left[i].n = n THEN [left[i] EXCEPT !.look = "faded"] ELSE left[i]]
    OBVIOUS
  <2>4. rows \in Seq(RowShape)
    BY <1>2 DEF DialogTypes
  <2>5. left \in Seq(RowShape)
    BY <2>2, <2>4, Picks
  <2>6. NotDisplayed(r, left, n)
    BY <2>3, <2>5, RowNotDisplayed
  <2>7. Gone(r, n)
    <3>1. \A i : i \in at <=> i \in DOMAIN rows /\ rows[i].n # row
      BY <2>1
    <3> QED BY <3>1, <2>2, <2>4, <2>6, RowGone
  <2>8. rows' = r
    BY <2>1, <2>2, <2>3 DEF FadeEnd
  <2> QED BY <2>7, <2>8
<1>5. rows' \in Seq(RowShape)
  BY <1>4 DEF Gone
<1>6. PICK h \in [DOMAIN rows' -> DOMAIN rows] :
          /\ \A m \in DOMAIN rows' :
                /\ rows[h[m]].n # row
                /\ rows'[m].id = rows[h[m]].id /\ rows'[m].n = rows[h[m]].n
                /\ rows'[m].active = rows[h[m]].active /\ rows'[m].empty = rows[h[m]].empty
                /\ rows'[m].offers = rows[h[m]].offers
                /\ rows'[m].look = IF rows[h[m]].n = n THEN "faded" ELSE rows[h[m]].look
          /\ \A m, k \in DOMAIN rows' : h[m] = h[k] => m = k
          /\ \A i \in DOMAIN rows : rows[i].n # row => \E m \in DOMAIN rows' : h[m] = i
  BY <1>4 DEF Gone
<1>7. \A m \in DOMAIN rows' : h[m] \in DOMAIN rows
  BY <1>6
\* A row that is shown stays as it is.
<1>8. ASSUME NEW i \in DOMAIN rows, rows[i].look = "shown"
      PROVE  rows[i].n # row /\ rows[i].n # n
  BY <1>2, <1>8 DEF FadesOK
<1>9. ASSUME NEW m \in DOMAIN rows'
      PROVE  rows'[m].look = "shown" <=> rows[h[m]].look = "shown"
  BY <1>6, <1>7, <1>8
<1>10. \A i \in DOMAIN rows : rows[i].look = "shown" => \E m \in DOMAIN rows' : h[m] = i
  BY <1>6, <1>8
<1>11. DialogTypes'
  BY <1>1, <1>2, <1>3, <1>5 DEF DialogTypes
<1>12. NumbersOK'
  <2>1. Numbered(rows, 0, serial)'
    BY <1>1, <1>2, <1>6, <1>7 DEF NumbersOK, Numbered
  <2> QED BY <1>1, <1>2, <2>1 DEF NumbersOK
<1>13. FadesOK'
  <2> SUFFICES ASSUME NEW m \in DOMAIN rows'
               PROVE  /\ rows'[m].n \in fades' \cup {row'} => rows'[m].look # "shown"
                      /\ rows'[m].look # "shown" =>
                            /\ rows'[m].id \in touched'
                            /\ kind # "members" => /\ rows'[m].look = "fading"
                                                   /\ rows'[m].n = row' /\ row' \in fades'
    BY <1>1 DEF FadesOK
  <2>1. rows'[m].n \in fades' \cup {row'} => rows'[m].look # "shown"
    BY <1>1, <1>2, <1>6, <1>7, <1>9 DEF FadesOK
  <2>2. rows'[m].look # "shown" => rows'[m].id \in touched'
    BY <1>1, <1>2, <1>6, <1>7, <1>9 DEF FadesOK
  <2>3. kind # "members" => rows'[m].look = "shown"
    BY <1>2, <1>6, <1>7, <1>9 DEF FadesOK
  <2> QED BY <2>1, <2>2, <2>3
<1>14. IdsOnce(rows) => IdsOnce(rows)'
  BY <1>6, <1>7 DEF IdsOnce
<1>15. \A t, x : Has(t, x)' <=> Has(t, x)
  BY <1>1 DEF Has
<1>r. \A m \in DOMAIN rows' : RolesIn(m)' = RolesIn(h[m])
  BY <1>1, <1>6 DEF RolesIn
<1>16. ASSUME NEW t, NEW x PROVE Shows(t, x)' <=> Shows(t, x)
  <2>1. ASSUME Shows(t, x)' PROVE Shows(t, x)
    <3>1. PICK m \in DOMAIN rows' : /\ rows'[m].look = "shown" /\ rows'[m].id = t
                                    /\ x \in RolesIn(m)'
      BY <2>1 DEF Shows
    <3> QED BY <3>1, <1>6, <1>7, <1>9, <1>r DEF Shows
  <2>2. ASSUME Shows(t, x) PROVE Shows(t, x)'
    <3>1. PICK i \in DOMAIN rows : /\ rows[i].look = "shown" /\ rows[i].id = t
                                   /\ x \in RolesIn(i)
      BY <2>2 DEF Shows
    <3>2. PICK m \in DOMAIN rows' : h[m] = i
      BY <3>1, <1>10
    <3>3. rows'[m].look = "shown" /\ rows'[m].id = t /\ RolesIn(m)' = RolesIn(i)
      BY <3>1, <3>2, <1>6, <1>9, <1>r
    <3> QED BY <3>1, <3>3 DEF Shows
  <2> QED BY <2>1, <2>2
<1>17. Agree => Agree'
  BY <1>3, <1>15, <1>16 DEF Agree
<1>18. Kept => Kept'
  <2> SUFFICES ASSUME Kept, listed # None, NEW u \in DOMAIN listed \ touched, NEW x \in Roles
               PROVE  Posts(u, x)' <=> x \in listed[u]
    BY <1>1, <1>3 DEF Kept
  <2>1. Posts(u, x) <=> x \in listed[u]
    BY DEF Kept
  <2>2. CASE kind \in Posting
    <3>1. ASSUME NEW m \in DOMAIN rows', rows'[m].id = u PROVE \E i \in DOMAIN rows : rows[i].id = u
      BY <3>1, <1>6, <1>7
    <3>2. ASSUME NEW i \in DOMAIN rows, rows[i].id = u PROVE \E m \in DOMAIN rows' : rows'[m].id = u
      <4>1. rows[i].look = "shown"
        BY <3>2, <1>2 DEF FadesOK
      <4>2. PICK m \in DOMAIN rows' : h[m] = i
        BY <4>1, <1>10
      <4> QED BY <3>2, <4>2, <1>6
    <3> QED BY <1>1, <2>1, <2>2, <3>1, <3>2 DEF Posts
  <2>3. CASE kind \notin Posting
    BY <1>1, <1>15, <2>1, <2>3 DEF Posts
  <2> QED BY <2>2, <2>3
<1>19. rows = <<>> => rows' = <<>>
  <2> SUFFICES ASSUME rows = <<>> PROVE rows' = <<>>
    OBVIOUS
  <2>1. DOMAIN rows = {}
    OBVIOUS
  <2>2. DOMAIN rows' = {}
    BY <2>1, <1>7
  <2> QED BY <2>2, <1>5
<1>20. ASSUME \A i \in DOMAIN rows : rows[i].look = "shown"
       PROVE  \A m \in DOMAIN rows' : rows'[m].look = "shown"
  BY <1>7, <1>9, <1>20
<1>21. ASSUME kind = "members" PROVE MembersOK'
  <2>1. MembersOK
    BY <1>21 DEF DInv
  <2>2. IdsOnce(list)'
    BY <1>1, <2>1 DEF MembersOK, IdsOnce
  <2>3. \A m \in DOMAIN rows' : rows'[m].active = {} => rows'[m].empty
    BY <1>6, <1>7, <2>1 DEF MembersOK
  <2>4. answers # <<>> \/ ~open =>
            \A m \in DOMAIN rows' : rows'[m].look = "shown" /\ rows'[m].active # {}
    BY <1>6, <1>7, <1>20, <2>1 DEF MembersOK
  <2> QED BY <1>1, <1>14, <1>17, <1>18, <1>19, <2>1, <2>2, <2>3, <2>4 DEF MembersOK
<1>22. ASSUME kind \in Assigning, ~late PROVE AssigningOK'
  <2>1. AssigningOK
    BY <1>22 DEF DInv
  <2>2. ASSUME NEW m \in DOMAIN rows', rows'[m].look = "shown"
        PROVE  count'[rows'[m].id] = Cardinality(RolesIn(m)')
    BY <1>1, <1>6, <1>7, <1>9, <1>r, <2>1, <2>2 DEF AssigningOK
  <2>3. ASSUME NEW u \in Things,
               \A m \in DOMAIN rows' : rows'[m].look = "shown" => rows'[m].id # u
        PROVE  count'[u] = None
    <3>1. ASSUME NEW i \in DOMAIN rows, rows[i].look = "shown" PROVE rows[i].id # u
      <4>1. PICK m \in DOMAIN rows' : h[m] = i
        BY <3>1, <1>10
      <4> QED BY <3>1, <4>1, <2>3, <1>6, <1>9
    <3> QED BY <3>1, <2>1, <1>1 DEF AssigningOK
  <2>4. answers # <<>> =>
            \A m \in DOMAIN rows' : rows'[m].look = "shown" /\ rows'[m].active = {}
    BY <1>6, <1>7, <1>20, <2>1 DEF AssigningOK
  <2> QED BY <1>1, <1>14, <1>17, <1>18, <1>19, <2>1, <2>2, <2>3, <2>4 DEF AssigningOK
<1>23. ASSUME kind \in Posting PROVE PostingOK'
  <2>1. PostingOK
    BY <1>23 DEF DInv
  <2>2. \A m \in DOMAIN rows' : rows'[m].active = {"listed"}
    BY <1>6, <1>7, <2>1 DEF PostingOK
  <2> QED BY <1>1, <1>18, <2>1, <2>2 DEF PostingOK
<1>24. OffersOK'
  BY <1>1, <1>6, <1>7 DEF DInv, OffersOK, Assigning
<1> QED BY <1>1, <1>11, <1>12, <1>13, <1>21, <1>22, <1>23, <1>24 DEF DInv

\* Rows whose display, or warning, is another, with the dialog as it was.
Alike(r) ==
    /\ r \in Seq(RowShape) /\ DOMAIN r = DOMAIN rows
    /\ \A i \in DOMAIN rows :
          /\ r[i].id = rows[i].id /\ r[i].n = rows[i].n /\ r[i].active = rows[i].active
          /\ r[i].look = rows[i].look /\ r[i].offers = rows[i].offers
          /\ kind = "members" => r[i].empty = rows[i].empty
LEMMA StepAlike ==
    ASSUME DialogsAssumption, DInv, Alike(rows'),
           UNCHANGED <<kind, open, answers, list, count, fades, row, serial, offered, listed,
                       touched, late>>
    PROVE  DInv'
<1>2. DialogTypes /\ NumbersOK /\ FadesOK /\ OffersOK /\ kind \in Kinds
  BY DEF DInv, DialogTypes
<1>4. /\ rows' \in Seq(RowShape) /\ DOMAIN rows' = DOMAIN rows
      /\ \A i \in DOMAIN rows :
            /\ rows'[i].id = rows[i].id /\ rows'[i].n = rows[i].n
            /\ rows'[i].active = rows[i].active /\ rows'[i].look = rows[i].look
            /\ rows'[i].offers = rows[i].offers
            /\ kind = "members" => rows'[i].empty = rows[i].empty
  BY DEF Alike
<1>5. Roles' = Roles /\ Listings' = Listings /\ RowShape' = RowShape /\ Entry' = Entry
  BY SameKind
<1>6. DialogTypes' /\ OffersOK'
  BY <1>2, <1>4, <1>5 DEF DialogTypes, OffersOK, Assigning
<1>7. NumbersOK' /\ FadesOK'
  BY <1>2, <1>4 DEF NumbersOK, Numbered, FadesOK
<1>8. (IdsOnce(rows) => IdsOnce(rows)') /\ (IdsOnce(list) => IdsOnce(list)')
  BY <1>4 DEF IdsOnce
<1>r. \A i \in DOMAIN rows : RolesIn(i)' = RolesIn(i)
  BY <1>4 DEF RolesIn
<1>9. (\A t, x : Has(t, x)' <=> Has(t, x)) /\ (\A t, x : Shows(t, x)' <=> Shows(t, x))
  BY <1>4, <1>r DEF Has, Shows
<1>10. Agree => Agree'
  BY <1>5, <1>9 DEF Agree
<1>11. Kept => Kept'
  <2>1. \A t : (\E i \in DOMAIN rows' : rows'[i].id = t) <=> (\E i \in DOMAIN rows : rows[i].id = t)
    BY <1>4
  <2>2. \A t, x : Posts(t, x)' <=> Posts(t, x)
    BY <2>1, <1>9 DEF Posts
  <2> QED BY <2>2, <1>5 DEF Kept
<1>12. rows = <<>> => rows' = <<>>
  <2> SUFFICES ASSUME rows = <<>> PROVE rows' = <<>>
    OBVIOUS
  <2>1. DOMAIN rows' = {}
    BY <1>4
  <2> QED BY <2>1, <1>4
<1>13. ASSUME kind = "members" PROVE MembersOK'
  BY <1>4, <1>8, <1>10, <1>11, <1>12, <1>13 DEF DInv, MembersOK
<1>14. ASSUME kind \in Assigning, ~late PROVE AssigningOK'
  <2>1. \A i \in DOMAIN rows' : /\ i \in DOMAIN rows /\ RolesIn(i)' = RolesIn(i)
                                /\ rows'[i].id = rows[i].id /\ rows'[i].look = rows[i].look
                                /\ rows'[i].active = rows[i].active
    BY <1>4, <1>r
  <2> QED BY <1>4, <1>8, <1>10, <1>11, <1>12, <1>14, <2>1 DEF DInv, AssigningOK
<1>15. ASSUME kind \in Posting PROVE PostingOK'
  BY <1>4, <1>11, <1>15 DEF DInv, PostingOK
<1> QED BY <1>6, <1>7, <1>13, <1>14, <1>15 DEF DInv, Assigning, Posting

\* Nothing that has faded is there to be shown again, and what the filter hides
\* is in the dialog all the same.
LEMMA StepFilter ==
    ASSUME DialogsAssumption, DInv, NEW S, Filter(S) PROVE DInv'
<1>1. /\ kind # "members"
      /\ UNCHANGED <<kind, open, answers, list, count, fades, row, serial, offered, listed,
                     touched, late>>
  BY DEF Filter
<1>2. \A i \in DOMAIN rows : rows[i].look # "faded"
  BY <1>1 DEF DInv, FadesOK
<1>3. rows \in Seq(RowShape) /\ DOMAIN rows = 1..Len(rows) /\ Len(rows) \in Nat
  BY DEF DInv, DialogTypes
<1>4. DOMAIN rows' = DOMAIN rows
  BY DEF Filter
<1>5. ASSUME NEW i \in DOMAIN rows
      PROVE  /\ rows'[i] \in RowShape
             /\ rows'[i].id = rows[i].id /\ rows'[i].n = rows[i].n
             /\ rows'[i].active = rows[i].active /\ rows'[i].look = rows[i].look
             /\ rows'[i].offers = rows[i].offers
  <2>1. PICK f : f = (rows[i].id \notin S)
    OBVIOUS
  <2>2. rows[i] \in RowShape /\ f \in BOOLEAN
    BY <1>3, <2>1
  <2>3. rows'[i] = [rows[i] EXCEPT !.look = rows[i].look, !.filtered = f]
    BY <1>2, <2>1 DEF Filter
  <2> QED BY <2>2, <2>3 DEF RowShape
<1>6. rows' \in Seq(RowShape)
  <2>1. rows' = [i \in 1..Len(rows) |-> rows'[i]]
    BY <1>3 DEF Filter
  <2>2. rows' \in [1..Len(rows) -> RowShape]
    BY <2>1, <1>3, <1>5
  <2> QED BY <2>2, <1>3
<1>7. Alike(rows')
  BY <1>1, <1>4, <1>5, <1>6 DEF Alike
<1> QED BY <1>1, <1>7, StepAlike

-----------------------------------------------------------------------------
(* Roles. *)

\* A row whose marks change.
Remarked(r, i, X) ==
    /\ r \in Seq(RowShape) /\ DOMAIN r = DOMAIN rows
    /\ \A j \in DOMAIN rows :
          /\ r[j].id = rows[j].id /\ r[j].n = rows[j].n /\ r[j].look = rows[j].look
          /\ r[j].offers = rows[j].offers
          /\ j # i => r[j].active = rows[j].active /\ r[j].empty = rows[j].empty
    /\ r[i].active = X
LEMMA RowRemarked ==
    ASSUME rows \in Seq(RowShape), NEW i \in DOMAIN rows, NEW X \in SUBSET Roles,
           NEW r, NEW e \in RowShape, r = [rows EXCEPT ![i] = e],
           e.id = rows[i].id, e.n = rows[i].n, e.look = rows[i].look, e.active = X,
           e.offers = rows[i].offers
    PROVE  Remarked(r, i, X)
<1>1. DOMAIN rows = 1..Len(rows) /\ Len(rows) \in Nat /\ \A j \in DOMAIN rows : rows[j] \in RowShape
  OBVIOUS
<1>2. DOMAIN r = DOMAIN rows /\ \A j \in DOMAIN rows : r[j] = IF j = i THEN e ELSE rows[j]
  OBVIOUS
<1>3. \A j \in DOMAIN rows : r[j] \in RowShape
  BY <1>1, <1>2
<1>4. r \in [1..Len(rows) -> RowShape]
  <2>1. r = [j \in 1..Len(rows) |-> r[j]]
    BY <1>1
  <2> QED BY <2>1, <1>1, <1>3
<1>5. r \in Seq(RowShape)
  BY <1>1, <1>4
<1>6. \A j \in DOMAIN rows :
          /\ r[j].id = rows[j].id /\ r[j].n = rows[j].n /\ r[j].look = rows[j].look
          /\ r[j].offers = rows[j].offers
          /\ j # i => r[j].active = rows[j].active /\ r[j].empty = rows[j].empty
  BY <1>2
<1>7. r[i].active = X
  BY <1>2
<1> QED BY <1>2, <1>5, <1>6, <1>7 DEF Remarked

\* What the other parts of the invariant need of a change of marks.
LEMMA MarksChanged ==
    ASSUME DialogsAssumption, DInv, NEW i \in DOMAIN rows, NEW X, Remarked(rows', i, X),
           rows[i].look = "shown", rows[i].offers, touched' = touched \cup {rows[i].id},
           UNCHANGED <<kind, fades, row, serial, listed>>
    PROVE  /\ NumbersOK' /\ FadesOK' /\ OffersOK' /\ touched' \subseteq Things
           /\ \A j \in DOMAIN rows : RolesIn(j)' = IF j = i THEN X ELSE RolesIn(j)
           /\ IdsOnce(rows) => IdsOnce(rows)'
           /\ IdsOnce(rows) =>
                 \A u, y : Shows(u, y)' <=> IF u = rows[i].id THEN y \in X ELSE Shows(u, y)
<1>1. DialogTypes /\ NumbersOK /\ FadesOK
  BY DEF DInv
<1>2. rows[i] \in RowShape
  BY <1>1 DEF DialogTypes
<1>3. touched' \subseteq Things
  BY <1>1, <1>2 DEF DialogTypes, RowShape
<1>4. NumbersOK'
  BY <1>1 DEF NumbersOK, Numbered, Remarked
<1>5. FadesOK'
  BY <1>1 DEF FadesOK, Remarked
<1>6. IdsOnce(rows) => IdsOnce(rows)'
  BY DEF IdsOnce, Remarked
<1>o. OffersOK'
  BY DEF DInv, OffersOK, Remarked, Assigning
<1>r. \A j \in DOMAIN rows : RolesIn(j)' = IF j = i THEN X ELSE RolesIn(j)
  BY DEF RolesIn, Remarked
<1>7. ASSUME IdsOnce(rows), NEW u, NEW y
      PROVE  Shows(u, y)' <=> IF u = rows[i].id THEN y \in X ELSE Shows(u, y)
  <2>1. CASE u = rows[i].id
    <3>1. ASSUME Shows(u, y)' PROVE y \in X
      <4>1. PICK j \in DOMAIN rows : rows'[j].id = u /\ y \in RolesIn(j)'
        BY <3>1 DEF Shows, Remarked
      <4> QED BY <4>1, <2>1, <1>7, <1>r DEF IdsOnce, Remarked
    <3>2. ASSUME y \in X PROVE Shows(u, y)'
      <4>1. i \in DOMAIN rows' /\ rows'[i].look = "shown" /\ rows'[i].id = u /\ RolesIn(i)' = X
        BY <2>1, <1>r DEF Remarked
      <4> QED BY <3>2, <4>1 DEF Shows
    <3> QED BY <2>1, <3>1, <3>2
  <2>2. CASE u # rows[i].id
    BY <2>2, <1>r DEF Shows, Remarked
  <2> QED BY <2>1, <2>2
<1> QED BY <1>3, <1>4, <1>5, <1>6, <1>7, <1>o, <1>r

\* What was touched is out of the comparison.
LEMMA KeptElsewhere ==
    ASSUME Kept, NEW t, touched' = touched \cup {t}, kind' = kind, listed' = listed,
           kind \notin Posting, \A u, y : u # t => (Has(u, y)' <=> Has(u, y))
    PROVE  Kept'
<1>1. Roles' = Roles
  BY SameKind
<1> SUFFICES ASSUME listed # None, NEW u \in DOMAIN listed \ touched', NEW x \in Roles
             PROVE  Posts(u, x)' <=> x \in listed[u]
  BY <1>1 DEF Kept
<1>2. u # t /\ (Posts(u, x) <=> x \in listed[u])
  BY DEF Kept
<1> QED BY <1>2 DEF Posts

\* The role of a member.
LEMMA StepRoleMember ==
    ASSUME DialogsAssumption, DInv, NEW i \in DOMAIN rows, NEW x \in Roles,
           RoleOfMember(i, x), rows[i].look = "shown", rows[i].offers, answers = <<>>,
           open = TRUE, touched' = touched \cup {rows[i].id},
           UNCHANGED <<kind, open, answers, fades, row, serial, offered, listed, late>>
    PROVE  DInv'
<1> DEFINE t == rows[i].id
           k == EntryOf(t)
<1>1. /\ kind = "members" /\ count' = count
      /\ x \in rows[i].active =>
            /\ rows' = [rows EXCEPT ![i].active = @ \ {x}, ![i].empty = TRUE]
            /\ list' = IF k # {} THEN RemoveAt(list, CHOOSE j \in k : TRUE)
                       ELSE SubSeq(list, 1, Len(list) - 1)
      /\ x \notin rows[i].active =>
            /\ rows' = [rows EXCEPT ![i].active = {x}, ![i].empty = FALSE]
            /\ list' = IF k = {} THEN Append(list, [id |-> t, role |-> x])
                       ELSE [list EXCEPT ![CHOOSE j \in k : TRUE].role = x]
  BY DEF RoleOfMember
<1>2. kind \in Kinds /\ DialogTypes /\ MembersOK /\ kind \notin Posting /\ kind \notin Assigning
  BY <1>1, KindIs DEF DInv, DialogTypes
<1>3. Roles' = Roles /\ Listings' = Listings /\ RowShape' = RowShape /\ Entry' = Entry
  BY SameKind
<1>4. rows \in Seq(RowShape) /\ list \in Seq(Entry)
  BY <1>2 DEF DialogTypes
<1>5. rows[i] \in RowShape /\ t \in Things /\ rows[i].active \subseteq Roles
  <2>1. rows[i] \in RowShape
    BY <1>4
  <2> QED BY <2>1 DEF RowShape
<1>6. /\ IdsOnce(rows) /\ IdsOnce(list)
      /\ \A u \in Things, y \in Roles : Has(u, y) <=> Shows(u, y)
  BY <1>2 DEF MembersOK, Agree
<1> HIDE DEF t
<1>7. \A j : j \in k => j \in DOMAIN list /\ list[j].id = t
  BY DEF EntryOf
<1>8. \A j \in DOMAIN list : list[j].id = t => j \in k
  <2> SUFFICES ASSUME NEW j \in DOMAIN list, list[j].id = t PROVE j \in k
    OBVIOUS
  <2>1. \A m \in 1..(j - 1) : m \in DOMAIN list /\ m # j
    BY <1>4
  <2> QED BY <2>1, <1>6 DEF EntryOf, IdsOnce
<1> HIDE DEF k
<1>9. \A y \in Roles : y \in rows[i].active <=> Has(t, y)
  <2>1. \A y \in Roles : y \in rows[i].active <=> Shows(t, y)
    BY <1>6 DEF Shows, RolesIn, IdsOnce, t
  <2> QED BY <2>1, <1>5, <1>6
<1>10. \E X \in SUBSET Roles :
          /\ Remarked(rows', i, X)
          /\ rows'[i].active = {} => rows'[i].empty
          /\ list' \in Seq(Entry) /\ IdsOnce(list)'
          /\ \A u, y : Has(u, y)' <=> IF u = t THEN y \in X ELSE Has(u, y)
  <2>1. CASE x \in rows[i].active
    <3>1. PICK j \in k : j \in DOMAIN list /\ list[j].id = t /\ list[j].role = x
      BY <2>1, <1>8, <1>9 DEF Has
    <3>2. \A m : m \in k => m = j
      BY <1>6, <1>7, <3>1 DEF IdsOnce
    <3>3. list' = RemoveAt(list, j)
      BY <1>1, <2>1, <3>1, <3>2
    <3>4. /\ list' \in Seq(Entry) /\ Len(list') = Len(list) - 1
          /\ \A m \in 1..(Len(list) - 1) : list'[m] = IF m < j THEN list[m] ELSE list[m + 1]
      <4>1. j \in 1..Len(list)
        BY <1>4, <3>1
      <4> QED BY <4>1, <1>4, <3>3, Removed
    <3>5. /\ DOMAIN list' = 1..(Len(list) - 1) /\ DOMAIN list = 1..Len(list) /\ Len(list) \in Nat
          /\ j \in Nat
      BY <1>4, <3>1, <3>4
    <3>6. IdsOnce(list)'
      <4> SUFFICES ASSUME NEW a \in DOMAIN list', NEW b \in DOMAIN list', list'[a].id = list'[b].id
                   PROVE  a = b
        BY DEF IdsOnce
      <4>1. /\ a \in Nat /\ b \in Nat /\ a \in DOMAIN list /\ a + 1 \in DOMAIN list
            /\ b \in DOMAIN list /\ b + 1 \in DOMAIN list
        BY <3>5
      <4>2. (IF a < j THEN a ELSE a + 1) = (IF b < j THEN b ELSE b + 1)
        BY <4>1, <3>4, <3>5, <1>6 DEF IdsOnce
      <4> QED BY <4>1, <4>2, <3>5
    <3>7. ASSUME NEW u, NEW y PROVE Has(u, y)' <=> Has(u, y) /\ u # t
      <4>1. ASSUME Has(u, y)' PROVE Has(u, y) /\ u # t
        <5>1. PICK a \in DOMAIN list' : list'[a].id = u /\ list'[a].role = y
          BY <4>1 DEF Has
        <5>2. a \in Nat /\ a \in DOMAIN list /\ a + 1 \in DOMAIN list
          BY <3>5
        <5>3. CASE a < j
          <6>1. list'[a] = list[a] /\ a # j
            BY <5>1, <5>2, <5>3, <3>4, <3>5
          <6> QED BY <6>1, <5>1, <5>2, <3>1, <1>6 DEF Has, IdsOnce
        <5>4. CASE ~(a < j)
          <6>1. list'[a] = list[a + 1] /\ a + 1 # j
            BY <5>1, <5>2, <5>4, <3>4, <3>5
          <6> QED BY <6>1, <5>1, <5>2, <3>1, <1>6 DEF Has, IdsOnce
        <5> QED BY <5>3, <5>4
      <4>2. ASSUME Has(u, y), u # t PROVE Has(u, y)'
        <5>1. PICK a \in DOMAIN list : list[a].id = u /\ list[a].role = y
          BY <4>2 DEF Has
        <5>2. a # j /\ a \in Nat
          BY <4>2, <5>1, <3>1, <3>5
        <5>3. CASE a < j
          <6>1. a \in DOMAIN list' /\ list'[a] = list[a]
            BY <5>2, <5>3, <3>1, <3>4, <3>5
          <6> QED BY <6>1, <5>1 DEF Has
        <5>4. CASE j < a
          <6>1. a - 1 \in DOMAIN list' /\ list'[a - 1] = list[a]
            BY <5>2, <5>4, <3>1, <3>4, <3>5
          <6> QED BY <6>1, <5>1 DEF Has
        <5> QED BY <5>2, <5>3, <5>4, <3>5
      <4> QED BY <4>1, <4>2
    <3>8. rows[i].active \ {x} = {}
      <4> SUFFICES ASSUME NEW y \in rows[i].active PROVE y = x
        OBVIOUS
      <4>1. PICK m \in DOMAIN list : list[m].id = t /\ list[m].role = y
        BY <1>5, <1>9 DEF Has
      <4> QED BY <4>1, <3>1, <1>6 DEF IdsOnce
    <3>9. Remarked(rows', i, {}) /\ rows'[i].empty = TRUE
      <4>1. rows' = [rows EXCEPT ![i].active = @ \ {x}, ![i].empty = TRUE]
        BY <1>1, <2>1
      <4>2. PICK e : e = [rows[i] EXCEPT !.active = {}, !.empty = TRUE]
        OBVIOUS
      <4>3. /\ e \in RowShape /\ e.active = {} /\ e.empty = TRUE
            /\ e.id = rows[i].id /\ e.n = rows[i].n /\ e.look = rows[i].look
            /\ e.offers = rows[i].offers
        BY <4>2, <1>5 DEF RowShape
      <4>4. rows' = [rows EXCEPT ![i] = e]
        BY <4>1, <4>2, <3>8, <1>4
      <4>5. {} \in SUBSET Roles
        OBVIOUS
      <4>6. Remarked(rows', i, {})
        BY <1>4, <4>3, <4>4, <4>5, RowRemarked
      <4> QED BY <1>4, <4>3, <4>4, <4>6
    <3>10. {} \in SUBSET Roles
      OBVIOUS
    <3> QED BY <3>4, <3>6, <3>7, <3>9, <3>10
  <2>2. CASE x \notin rows[i].active
    <3>1. Remarked(rows', i, {x})
      <4>1. rows' = [rows EXCEPT ![i].active = {x}, ![i].empty = FALSE]
        BY <1>1, <2>2
      <4>2. PICK e : e = [rows[i] EXCEPT !.active = {x}, !.empty = FALSE]
        OBVIOUS
      <4>3. {x} \in SUBSET Roles
        OBVIOUS
      <4>4. /\ e \in RowShape /\ e.active = {x}
            /\ e.id = rows[i].id /\ e.n = rows[i].n /\ e.look = rows[i].look
            /\ e.offers = rows[i].offers
        BY <4>2, <4>3, <1>5 DEF RowShape
      <4>5. rows' = [rows EXCEPT ![i] = e]
        BY <4>1, <4>2, <1>4
      <4> QED BY <1>4, <4>3, <4>4, <4>5, RowRemarked
    <3>2. rows'[i].active # {}
      BY <3>1 DEF Remarked
    <3>3. /\ list' \in Seq(Entry) /\ IdsOnce(list)'
          /\ \A u, y : Has(u, y)' <=> IF u = t THEN y = x ELSE Has(u, y)
      <4>1. CASE k = {}
        <5>1. PICK e : e = [id |-> t, role |-> x]
          OBVIOUS
        <5>2. list' = Append(list, e) /\ e \in Entry /\ e.id = t /\ e.role = x
          BY <1>1, <1>5, <2>2, <4>1, <5>1 DEF Entry
        <5>3. /\ list' \in Seq(Entry)
              /\ \A m \in DOMAIN list' : \/ m \in DOMAIN list /\ list'[m] = list[m]
                                         \/ m = Len(list) + 1 /\ list'[m] = e
              /\ \A m \in DOMAIN list : m \in DOMAIN list' /\ list'[m] = list[m]
              /\ Len(list) + 1 \in DOMAIN list' /\ list'[Len(list) + 1] = e
          BY <5>2, <1>4
        <5>4. \A m \in DOMAIN list : list[m].id # t
          BY <4>1, <1>8
        <5>5. IdsOnce(list)'
          BY <5>2, <5>3, <5>4, <1>6 DEF IdsOnce
        <5>6. ASSUME NEW u, NEW y PROVE Has(u, y)' <=> IF u = t THEN y = x ELSE Has(u, y)
          BY <5>2, <5>3, <5>4 DEF Has
        <5> QED BY <5>3, <5>5, <5>6
      <4>2. CASE k # {}
        <5>1. PICK j : j = CHOOSE m \in k : TRUE
          OBVIOUS
        <5>2. j \in k /\ j \in DOMAIN list /\ list[j].id = t
          BY <4>2, <5>1, <1>7
        <5>3. list' = [list EXCEPT ![j].role = x]
          BY <1>1, <2>2, <4>2, <5>1
        <5>4. PICK e : e = [list[j] EXCEPT !.role = x]
          OBVIOUS
        <5>5. list[j] \in Entry
          BY <5>2, <1>4
        <5>6. e \in Entry /\ e.id = t /\ e.role = x
          BY <5>2, <5>4, <5>5 DEF Entry
        <5>7. list' = [list EXCEPT ![j] = e]
          BY <5>3, <5>4
        <5>8. /\ list' \in Seq(Entry) /\ DOMAIN list' = DOMAIN list
              /\ \A m \in DOMAIN list : list'[m] = IF m = j THEN e ELSE list[m]
          <6>1. DOMAIN list' = DOMAIN list
            BY <5>7
          <6>2. \A m \in DOMAIN list : list'[m] = IF m = j THEN e ELSE list[m]
            BY <5>7
          <6>3. PICK r : r = [list EXCEPT ![j] = e]
            OBVIOUS
          <6>4. r \in Seq(Entry)
            BY <5>2, <5>6, <6>3, <1>4
          <6> QED BY <5>7, <6>1, <6>2, <6>3, <6>4
        <5>9. IdsOnce(list)'
          BY <5>2, <5>6, <5>8, <1>6 DEF IdsOnce
        <5>10. ASSUME NEW u, NEW y PROVE Has(u, y)' <=> IF u = t THEN y = x ELSE Has(u, y)
          BY <5>2, <5>6, <5>8, <1>6 DEF Has, IdsOnce
        <5> QED BY <5>8, <5>9, <5>10
      <4> QED BY <4>1, <4>2
    <3> QED BY <3>1, <3>2, <3>3
  <2> QED BY <2>1, <2>2
<1>11. PICK X \in SUBSET Roles :
          /\ Remarked(rows', i, X)
          /\ rows'[i].active = {} => rows'[i].empty
          /\ list' \in Seq(Entry) /\ IdsOnce(list)'
          /\ \A u, y : Has(u, y)' <=> IF u = t THEN y \in X ELSE Has(u, y)
  BY <1>10
<1>12. /\ NumbersOK' /\ FadesOK' /\ OffersOK' /\ touched' \subseteq Things /\ IdsOnce(rows)'
       /\ \A u, y : Shows(u, y)' <=> IF u = t THEN y \in X ELSE Shows(u, y)
  BY <1>6, <1>11, MarksChanged DEF t
<1>13. DialogTypes'
  BY <1>1, <1>2, <1>3, <1>11, <1>12 DEF DialogTypes, Remarked
<1>14. Agree'
  BY <1>3, <1>6, <1>11, <1>12 DEF Agree
<1>15. \A j \in DOMAIN rows' : rows'[j].active = {} => rows'[j].empty
  BY <1>2, <1>11 DEF MembersOK, Remarked
<1>16. Kept => Kept'
  BY <1>2, <1>11, KeptElsewhere DEF t
<1>17. MembersOK'
  BY <1>2, <1>11, <1>12, <1>14, <1>15, <1>16 DEF MembersOK
<1> QED BY <1>1, <1>2, <1>12, <1>13, <1>17 DEF DInv

\* A role of an application, given or taken back.
LEMMA StepRoleAssigned ==
    ASSUME DialogsAssumption, DInv, NEW i \in DOMAIN rows, NEW x \in Roles,
           RoleAssigned(i, x), kind \in Assigning, rows[i].look = "shown", rows[i].offers,
           answers = <<>>, open = TRUE, touched' = touched \cup {rows[i].id},
           UNCHANGED <<kind, open, answers, fades, row, serial, offered, listed, late>>
    PROVE  DInv'
<1> DEFINE t == rows[i].id
           e == [id |-> t, role |-> x]
           on == x \in rows[i].active
           X == IF on THEN rows[i].active \ {x} ELSE rows[i].active \cup {x}
<1>1. /\ on => /\ rows' = [rows EXCEPT ![i].active = @ \ {x}]
               /\ count' = [count EXCEPT ![t] = Plus(@, -1)]
               /\ list' = Without({e})
      /\ ~on => /\ rows' = [rows EXCEPT ![i].active = @ \cup {x}]
                /\ count' = [count EXCEPT ![t] = Plus(@, 1)]
                /\ list' = Append(list, e)
  BY DEF RoleAssigned
<1>2. kind \in Kinds /\ DialogTypes /\ kind # "members" /\ kind \notin Posting /\ IsFiniteSet(Roles)
  BY KindIs DEF DInv, DialogTypes
<1>3. Roles' = Roles /\ Listings' = Listings /\ RowShape' = RowShape /\ Entry' = Entry
  BY SameKind
<1>4. /\ rows \in Seq(RowShape) /\ list \in Seq(Entry)
      /\ count \in [Things -> Int \cup {None, NaN}]
  BY <1>2 DEF DialogTypes
<1>5. rows[i] \in RowShape /\ t \in Things /\ rows[i].active \subseteq Roles
  <2>1. rows[i] \in RowShape
    BY <1>4
  <2> QED BY <2>1 DEF RowShape
<1>6. e \in Entry /\ e.id = t /\ e.role = x
  BY <1>5 DEF Entry
<1>7. X \in SUBSET Roles
  BY <1>5
<1>8. Remarked(rows', i, X)
  <2>1. PICK n : n = [rows[i] EXCEPT !.active = X]
    OBVIOUS
  <2>2. /\ n \in RowShape /\ n.active = X
        /\ n.id = rows[i].id /\ n.n = rows[i].n /\ n.look = rows[i].look
        /\ n.offers = rows[i].offers
    <3> HIDE DEF X
    <3> QED BY <2>1, <1>5, <1>7 DEF RowShape
  <2>3. rows' = [rows EXCEPT ![i] = n]
    BY <2>1, <1>1, <1>4
  <2> HIDE DEF X
  <2> QED BY <1>4, <1>7, <2>2, <2>3, RowRemarked
\* The number of marks.
<1>9. /\ Cardinality(rows[i].active) \in Nat
      /\ Cardinality(X) = IF on THEN Cardinality(rows[i].active) - 1
                          ELSE Cardinality(rows[i].active) + 1
  <2>1. IsFiniteSet(rows[i].active)
    BY <1>2, <1>5, FS_Subset
  <2>2. Cardinality(rows[i].active) \in Nat
    BY <2>1, FS_CardinalityType
  <2>3. CASE on
    <3>1. Cardinality(rows[i].active \ {x}) = Cardinality(rows[i].active) - 1
      BY <2>1, <2>3, FS_RemoveElement
    <3> QED BY <2>2, <2>3, <3>1
  <2>4. CASE ~on
    <3>1. Cardinality(rows[i].active \cup {x}) = Cardinality(rows[i].active) + 1
      BY <2>1, <2>4, FS_AddElement
    <3> QED BY <2>2, <2>4, <3>1
  <2> QED BY <2>3, <2>4
<1>10. /\ count' = [count EXCEPT ![t] = count'[t]]
       /\ \A u \in Things : u # t => count'[u] = count[u]
       /\ on => count'[t] = Plus(count[t], -1)
       /\ ~on => count'[t] = Plus(count[t], 1)
  <2> HIDE DEF t, e, on
  <2> QED BY <1>1, <1>4, <1>5
<1>11. count' \in [Things -> Int \cup {None, NaN}]
  <2>1. count[t] \in Int \cup {None, NaN}
    BY <1>4, <1>5
  <2>2. count'[t] \in Int \cup {None, NaN}
    <3> HIDE DEF t, e, on
    <3> QED BY <2>1, <1>10 DEF Plus
  <2> QED BY <2>2, <1>4, <1>10
<1> HIDE DEF e
\* The array.
<1>12. list' \in Seq(Entry)
       /\ \A u, y : Has(u, y)' <=> IF u = t /\ y = x THEN ~on ELSE Has(u, y)
  <2>1. CASE on
    <3>1. PICK r : r = Without({e})
      OBVIOUS
    <3>2. /\ r \in Seq(Entry)
          /\ \A m \in DOMAIN r : \E k \in DOMAIN list : r[m] = list[k] /\ list[k] \notin {e}
          /\ \A k \in DOMAIN list : list[k] \notin {e} => \E m \in DOMAIN r : r[m] = list[k]
      <4>1. PICK R : R = {e}
        OBVIOUS
      <4>2. /\ r \in Seq(Entry)
            /\ \A m \in DOMAIN r : \E k \in DOMAIN list : r[m] = list[k] /\ list[k] \notin R
            /\ \A k \in DOMAIN list : list[k] \notin R => \E m \in DOMAIN r : r[m] = list[k]
            /\ IdsOnce(list) => IdsOnce(r)
        <5>1. r = Without(R)
          BY <3>1, <4>1
        <5>2. list \in Seq(Entry)
          BY <1>4
        <5> QED BY ONLY <5>1, <5>2, WithoutIs
      <4> QED BY <4>1, <4>2
    <3>3. list' = r
      BY <1>1, <2>1, <3>1
    <3>4. \A k \in DOMAIN list : list[k] \in {e} <=> list[k].id = t /\ list[k].role = x
      <4> SUFFICES ASSUME NEW k \in DOMAIN list
                   PROVE  list[k] = e <=> list[k].id = t /\ list[k].role = x
        OBVIOUS
      <4>1. list[k] \in [id : Things, role : Roles]
        <5>1. list[k] \in Entry
          BY <1>4
        <5> QED BY <5>1 DEF Entry
      <4>2. e \in [id : Things, role : Roles]
        BY <1>6 DEF Entry
      <4> QED BY <4>1, <4>2, <1>6
    <3>5. ASSUME NEW u, NEW y PROVE Has(u, y)' <=> Has(u, y) /\ ~(u = t /\ y = x)
      <4>1. ASSUME Has(u, y)' PROVE Has(u, y) /\ ~(u = t /\ y = x)
        <5>1. PICK m \in DOMAIN r : r[m].id = u /\ r[m].role = y
          BY <4>1, <3>3 DEF Has
        <5> QED BY <5>1, <3>2, <3>4 DEF Has
      <4>2. ASSUME Has(u, y), ~(u = t /\ y = x) PROVE Has(u, y)'
        <5>1. PICK k \in DOMAIN list : list[k].id = u /\ list[k].role = y
          BY <4>2 DEF Has
        <5>2. PICK m \in DOMAIN r : r[m] = list[k]
          BY <5>1, <4>2, <3>2, <3>4
        <5> QED BY <5>1, <5>2, <3>3 DEF Has
      <4> QED BY <4>1, <4>2
    <3> QED BY <2>1, <3>2, <3>3, <3>5
  <2>2. CASE ~on
    <3>1. list' = Append(list, e)
      BY <1>1, <2>2 DEF e
    <3>2. /\ list' \in Seq(Entry)
          /\ \A m \in DOMAIN list' : \/ m \in DOMAIN list /\ list'[m] = list[m]
                                     \/ m = Len(list) + 1 /\ list'[m] = e
          /\ \A m \in DOMAIN list : m \in DOMAIN list' /\ list'[m] = list[m]
          /\ Len(list) + 1 \in DOMAIN list' /\ list'[Len(list) + 1] = e
      BY <3>1, <1>4, <1>6
    <3>3. ASSUME NEW u, NEW y PROVE Has(u, y)' <=> Has(u, y) \/ (u = t /\ y = x)
      BY <3>2, <1>6 DEF Has
    <3> QED BY <2>2, <3>2, <3>3
  <2> QED BY <2>1, <2>2
<1>13. /\ NumbersOK' /\ FadesOK' /\ OffersOK' /\ touched' \subseteq Things
       /\ \A j \in DOMAIN rows : RolesIn(j)' = IF j = i THEN X ELSE RolesIn(j)
  BY <1>8, MarksChanged
<1>r. RolesIn(i) = rows[i].active
  BY DEF RolesIn
<1>14. /\ IdsOnce(rows) => IdsOnce(rows)'
       /\ IdsOnce(rows) => \A u, y : Shows(u, y)' <=> IF u = t THEN y \in X ELSE Shows(u, y)
  BY <1>8, MarksChanged
<1>15. DialogTypes'
  <2> HIDE DEF X, on, t
  <2> QED BY <1>2, <1>3, <1>8, <1>11, <1>12, <1>13 DEF DialogTypes, Remarked
<1>16. ASSUME ~late PROVE AssigningOK'
  <2>1. AssigningOK
    BY <1>16 DEF DInv
  <2>2. IdsOnce(rows)' /\ \A u, y : Shows(u, y)' <=> IF u = t THEN y \in X ELSE Shows(u, y)
    BY <1>14, <2>1 DEF AssigningOK
  <2>3. Agree /\ Kept /\ offered
    BY <2>1 DEF AssigningOK
  <2>4. \A y : Shows(t, y) <=> y \in rows[i].active
    BY <2>1, <1>r DEF AssigningOK, Shows, IdsOnce
  <2>5. Agree'
    <3> SUFFICES ASSUME NEW u \in Things, NEW y \in Roles PROVE Has(u, y)' <=> Shows(u, y)'
      BY <1>3 DEF Agree
    <3>1. Has(u, y) <=> Shows(u, y)
      BY <2>3 DEF Agree
    <3>2. CASE u = t
      <4>1. y \in X <=> IF y = x THEN ~on ELSE y \in rows[i].active
        OBVIOUS
      <4>2. Shows(u, y)' <=> y \in X
        BY <3>2, <2>2
      <4>3. Has(u, y)' <=> IF y = x THEN ~on ELSE Has(u, y)
        BY <3>2, <1>12
      <4>4. Has(u, y) <=> y \in rows[i].active
        BY <3>1, <3>2, <2>4
      <4> QED BY <4>1, <4>2, <4>3, <4>4
    <3>3. CASE u # t
      BY <3>1, <3>3, <1>12, <2>2
    <3> QED BY <3>2, <3>3
  <2>6. \A u, y : u # t => (Has(u, y)' <=> Has(u, y))
    BY <1>12
  <2>7. Kept'
    BY <2>3, <2>6, <1>2, KeptElsewhere
  <2>8. count[t] = Cardinality(rows[i].active)
    BY <2>1, <1>r DEF AssigningOK
  <2>9. count'[t] = Cardinality(X)
    <3>1. count[t] \notin {None, NaN}
      BY <2>8, <1>9 DEF DialogsAssumption
    <3> QED BY <2>8, <3>1, <1>9, <1>10 DEF Plus
  <2> HIDE DEF X, on
  <2>10. ASSUME NEW j \in DOMAIN rows', rows'[j].look = "shown"
         PROVE  count'[rows'[j].id] = Cardinality(RolesIn(j)')
    <3>1. CASE j = i
      BY <3>1, <2>9, <1>8, <1>13 DEF Remarked
    <3>2. CASE j # i
      <4>1. /\ j \in DOMAIN rows /\ rows'[j].id = rows[j].id /\ rows[j].look = "shown"
            /\ RolesIn(j)' = RolesIn(j)
        BY <3>2, <2>10, <1>8, <1>13 DEF Remarked
      <4>2. rows[j] \in RowShape
        BY <4>1, <1>4
      <4>3. rows[j].id # t /\ rows[j].id \in Things
        BY <3>2, <4>1, <4>2, <2>1 DEF AssigningOK, IdsOnce, RowShape
      <4> QED BY <4>1, <4>3, <2>1, <1>10 DEF AssigningOK
    <3> QED BY <3>1, <3>2
  <2>11. ASSUME NEW u \in Things,
                \A j \in DOMAIN rows' : rows'[j].look = "shown" => rows'[j].id # u
         PROVE  count'[u] = None
    <3>1. \A j \in DOMAIN rows : rows[j].look = "shown" => rows[j].id # u
      BY <2>11, <1>8 DEF Remarked
    <3>2. u # t
      BY <3>1
    <3> QED BY <3>1, <3>2, <2>1, <1>10 DEF AssigningOK
  <2>12. answers' = <<>> /\ open' = TRUE /\ offered'
    BY <2>3
  <2> QED BY <2>2, <2>5, <2>7, <2>10, <2>11, <2>12 DEF AssigningOK
<1> QED BY <1>2, <1>13, <1>15, <1>16 DEF DInv

LEMMA StepRole ==
    ASSUME DialogsAssumption, DInv, NEW i \in DOMAIN rows, NEW x \in Roles, Role(i, x), ~hasty'
    PROVE  DInv'
<1>1. /\ open = TRUE /\ answers = <<>> /\ rows[i].look # "faded" /\ rows[i].look # "fading"
      /\ rows[i].offers = TRUE /\ touched' = touched \cup {rows[i].id}
      /\ UNCHANGED <<kind, open, answers, fades, row, serial, offered, listed, late>>
  <2>1. rows[i].offers \in BOOLEAN
    <3>1. rows[i] \in RowShape
      BY DEF DInv, DialogTypes
    <3> QED BY <3>1 DEF RowShape
  <2> QED BY <2>1 DEF Role, Displayed, Editing, DInv, DialogTypes
<1>2. rows[i].look = "shown"
  <2>1. rows[i] \in RowShape
    BY DEF DInv, DialogTypes
  <2> QED BY <2>1, <1>1 DEF RowShape
<1>3. CASE RoleOfMember(i, x)
  BY <1>1, <1>2, <1>3, StepRoleMember
<1>4. CASE RoleOfUser(i, x) \/ RoleOfOrganization(i, x)
  <2>1. RoleAssigned(i, x) /\ kind \in Assigning
    BY <1>4 DEF RoleOfUser, RoleOfOrganization, Assigning
  <2> QED BY <1>1, <1>2, <2>1, StepRoleAssigned
<1> QED BY <1>3, <1>4 DEF Role

-----------------------------------------------------------------------------
(* Submitting. *)

\* Rows without a role are marked, and nothing else changes.
LEMMA RowsFlagged ==
    ASSUME rows \in Seq(RowShape), rows' = rows \/ rows' = Flagged
    PROVE  /\ rows' \in Seq(RowShape) /\ DOMAIN rows' = DOMAIN rows
           /\ \A i \in DOMAIN rows :
                 /\ rows'[i].id = rows[i].id /\ rows'[i].n = rows[i].n
                 /\ rows'[i].active = rows[i].active /\ rows'[i].look = rows[i].look
                 /\ rows'[i].offers = rows[i].offers
           /\ rows' = Flagged =>
                 \A i \in DOMAIN rows :
                    (count[rows[i].id] = 0 /\ i = First(rows, rows[i].id)) => rows'[i].empty
<1>1. DOMAIN rows = 1..Len(rows) /\ Len(rows) \in Nat /\ \A i \in DOMAIN rows : rows[i] \in RowShape
  OBVIOUS
<1>2. CASE rows' = Flagged
  <2>1. DOMAIN rows' = DOMAIN rows
    BY <1>2 DEF Flagged
  <2>2. ASSUME NEW i \in DOMAIN rows
        PROVE  /\ rows'[i] \in RowShape
               /\ rows'[i].id = rows[i].id /\ rows'[i].n = rows[i].n
               /\ rows'[i].active = rows[i].active /\ rows'[i].look = rows[i].look
               /\ rows'[i].offers = rows[i].offers
               /\ (count[rows[i].id] = 0 /\ i = First(rows, rows[i].id)) => rows'[i].empty
    <3> DEFINE f == count[rows[i].id] = 0 /\ i = First(rows, rows[i].id)
    <3>1. rows'[i] = [rows[i] EXCEPT !.empty = @ \/ f]
      BY <1>2 DEF Flagged
    <3>2. f \in BOOLEAN
      OBVIOUS
    <3>3. rows[i] \in RowShape
      BY <1>1
    <3> HIDE DEF f
    <3>4. /\ rows'[i] \in RowShape
          /\ rows'[i].id = rows[i].id /\ rows'[i].n = rows[i].n
          /\ rows'[i].active = rows[i].active /\ rows'[i].look = rows[i].look
          /\ rows'[i].offers = rows[i].offers
          /\ rows'[i].empty = (rows[i].empty \/ f)
      BY <3>1, <3>2, <3>3 DEF RowShape
    <3>5. f => rows'[i].empty
      BY <3>4
    <3> QED BY <3>4, <3>5 DEF f
  <2>3. rows' = [i \in 1..Len(rows) |-> rows'[i]]
    BY <1>1, <1>2 DEF Flagged
  <2>4. rows' \in Seq(RowShape)
    <3>1. rows' \in [1..Len(rows) -> RowShape]
      BY <1>1, <2>2, <2>3
    <3> QED BY <3>1, <1>1
  <2> QED BY <2>1, <2>2, <2>4
<1>3. CASE rows' = rows /\ rows' # Flagged
  BY <1>3
<1> QED BY <1>2, <1>3

LEMMA StepSubmit == ASSUME DialogsAssumption, DInv, Submit PROVE DInv'
<1>1. /\ kind = "members" \/ kind \notin Assigning => rows' = rows
      /\ rows' = rows \/ rows' = Flagged
      /\ UNCHANGED <<kind, open, answers, list, count, fades, row, serial, offered, listed,
                     touched, late>>
  BY DEF Submit, FlagMembers, FlagUsers, FlagOrganizations, FlagPosting, Assigning
<1>2. rows \in Seq(RowShape)
  BY DEF DInv, DialogTypes
<1>3. /\ rows' \in Seq(RowShape) /\ DOMAIN rows' = DOMAIN rows
      /\ \A i \in DOMAIN rows :
            /\ rows'[i].id = rows[i].id /\ rows'[i].n = rows[i].n
            /\ rows'[i].active = rows[i].active /\ rows'[i].look = rows[i].look
            /\ rows'[i].offers = rows[i].offers
  BY <1>1, <1>2, RowsFlagged
<1>4. Alike(rows')
  BY <1>1, <1>3 DEF Alike
<1> QED BY <1>1, <1>4, StepAlike

\* What is submitted, of the members or of roles, and of the others.
LEMMA PostsWhat ==
    ASSUME DialogsAssumption, DInv, Submit, posted' # None
    PROVE  /\ posted'.at = "Save" => \A i \in DOMAIN rows' : ~rows'[i].empty
           /\ \A e \in posted'.what : e \in [id : Things, role : Roles]
           /\ \A t : \A x \in Roles : [id |-> t, role |-> x] \in posted'.what <=> Posts(t, x)
<1> DEFINE what == IF kind \in Posting
                   THEN {[id |-> rows[i].id, role |-> "listed"] : i \in DOMAIN rows}
                   ELSE ToSet(list)
<1>1. /\ button = "Confirm" \/ \A i \in DOMAIN rows' : ~rows'[i].empty
      /\ posted' = [what |-> what, at |-> button]
  BY DEF Submit, Editing
<1> HIDE DEF what
<1>2. posted'.what = what /\ posted'.at = button
  BY <1>1
<1>3. /\ kind \in Posting => Roles = {"listed"}
      /\ list \in Seq(Entry) /\ rows \in Seq(RowShape)
  BY KindIs DEF DInv, DialogTypes
<1>4. CASE kind \in Posting
  <2>1. \A e : e \in what <=> \E i \in DOMAIN rows : e = [id |-> rows[i].id, role |-> "listed"]
    BY <1>4 DEF what
  <2>2. \A i \in DOMAIN rows : rows[i].id \in Things
    <3>1. \A i \in DOMAIN rows : rows[i] \in RowShape
      BY <1>3
    <3> QED BY <3>1 DEF RowShape
  <2>3. \A e \in what : e \in [id : Things, role : Roles]
    BY <2>1, <2>2, <1>3, <1>4
  <2>4. ASSUME NEW t, NEW x \in Roles PROVE [id |-> t, role |-> x] \in what <=> Posts(t, x)
    <3>1. x = "listed"
      BY <1>3, <1>4
    <3>2. ASSUME NEW i \in DOMAIN rows
          PROVE  [id |-> t, role |-> x] = [id |-> rows[i].id, role |-> "listed"] <=> rows[i].id = t
      BY <3>1
    <3> QED BY <2>1, <3>2, <1>4 DEF Posts
  <2> QED BY <2>3, <2>4, <1>1, <1>2
<1>5. CASE kind \notin Posting
  <2>1. \A e : e \in what <=> \E k \in DOMAIN list : list[k] = e
    BY <1>5 DEF what, ToSet
  <2>2. \A k \in DOMAIN list : list[k] \in [id : Things, role : Roles]
    <3>1. \A k \in DOMAIN list : list[k] \in Entry
      BY <1>3
    <3> QED BY <3>1 DEF Entry
  <2>3. \A e \in what : e \in [id : Things, role : Roles]
    BY <2>1, <2>2
  <2>4. ASSUME NEW t, NEW x \in Roles PROVE [id |-> t, role |-> x] \in what <=> Posts(t, x)
    <3>1. ASSUME NEW k \in DOMAIN list
          PROVE  list[k] = [id |-> t, role |-> x] <=> list[k].id = t /\ list[k].role = x
      BY <2>2
    <3> QED BY <2>1, <3>1, <1>5 DEF Posts, Has
  <2> QED BY <2>3, <2>4, <1>1, <1>2
<1> QED BY <1>4, <1>5

LEMMA SubmitShows ==
    ASSUME DialogsAssumption, DInv, Submit, ~hasty' PROVE PostedAsShown'
<1> SUFFICES ASSUME posted' # None
             PROVE  /\ (kind \in Assigning => ~late) => posted'.what = OfRows'
                    /\ (~late /\ posted'.at = "Save") =>
                          \A i \in Present' : RolesIn(i)' # {}
  <2>1. kind' = kind /\ late' = late
    BY DEF Submit
  <2> QED BY <2>1 DEF PostedAsShown
<1>1. /\ open = TRUE /\ ~(Waiting /\ kind \in Posting) /\ ~(answers # <<>> /\ kind \in Assigning)
      /\ listed' = listed
      /\ kind = "members" \/ kind \notin Assigning => rows' = rows
      /\ rows' = rows \/ rows' = Flagged
      /\ kind \in Assigning => rows' = Flagged
  BY DEF Submit, FlagMembers, FlagUsers, FlagOrganizations, FlagPosting, Assigning, Editing, DInv,
         DialogTypes, Posting
<1>2. kind \in Kinds /\ DialogTypes /\ FadesOK /\ rows \in Seq(RowShape)
  BY DEF DInv, DialogTypes
<1>3. /\ DOMAIN rows' = DOMAIN rows
      /\ \A i \in DOMAIN rows :
            /\ rows'[i].id = rows[i].id
            /\ rows'[i].active = rows[i].active /\ rows'[i].look = rows[i].look
            /\ rows'[i].offers = rows[i].offers
      /\ rows' = Flagged =>
            \A i \in DOMAIN rows :
               (count[rows[i].id] = 0 /\ i = First(rows, rows[i].id)) => rows'[i].empty
  BY <1>1, <1>2, RowsFlagged
<1>4. /\ posted'.at = "Save" => \A i \in DOMAIN rows' : ~rows'[i].empty
      /\ \A e \in posted'.what : e \in [id : Things, role : Roles]
      /\ \A t : \A x \in Roles : [id |-> t, role |-> x] \in posted'.what <=> Posts(t, x)
  BY PostsWhat
<1>r. \A i \in DOMAIN rows : RolesIn(i)' = RolesIn(i)
  BY <1>1, <1>3 DEF RolesIn
<1>5. \A i \in DOMAIN rows : rows[i].id \in Things /\ rows[i].active \subseteq Roles
  <2>1. \A i \in DOMAIN rows : rows[i] \in RowShape
    BY <1>2
  <2> QED BY <2>1 DEF RowShape
\* The elements of what is in the dialog.
<1>e. \A e : e \in OfRows' <=> \E i \in DOMAIN rows : /\ rows[i].look = "shown"
                                                      /\ \E x \in RolesIn(i) :
                                                            e = [id |-> rows[i].id, role |-> x]
  <2>1. \A i : i \in Present' <=> i \in DOMAIN rows /\ rows[i].look = "shown"
    BY <1>3 DEF Present
  <2>2. \A e : e \in OfRows' <=> \E i \in Present' : \E x \in RolesIn(i)' :
                                    e = [id |-> rows'[i].id, role |-> x]
    BY DEF OfRows
  <2>3. \A i \in DOMAIN rows : RolesIn(i)' = RolesIn(i) /\ rows'[i].id = rows[i].id
    BY <1>3, <1>r
  <2> QED BY <2>1, <2>2, <2>3
<1>6. /\ \A e \in OfRows' : \E t \in Things : \E x : e = [id |-> t, role |-> x] /\ Shows(t, x)
      /\ \A t, x : [id |-> t, role |-> x] \in OfRows' <=> Shows(t, x)
  <2>2. \A e \in OfRows' : \E t \in Things : \E x : e = [id |-> t, role |-> x] /\ Shows(t, x)
    <3> SUFFICES ASSUME NEW e \in OfRows'
                 PROVE  \E t \in Things : \E x : e = [id |-> t, role |-> x] /\ Shows(t, x)
      OBVIOUS
    <3>1. PICK i \in DOMAIN rows : /\ rows[i].look = "shown"
                                   /\ \E x \in RolesIn(i) : e = [id |-> rows[i].id, role |-> x]
      BY <1>e
    <3>2. PICK x \in RolesIn(i) : e = [id |-> rows[i].id, role |-> x]
      BY <3>1
    <3>3. rows[i].id \in Things /\ Shows(rows[i].id, x)
      BY <3>1, <1>5 DEF Shows
    <3> QED BY <3>2, <3>3
  <2>3. ASSUME NEW t, NEW x PROVE [id |-> t, role |-> x] \in OfRows' <=> Shows(t, x)
    <3>1. ASSUME NEW u, NEW y PROVE [id |-> t, role |-> x] = [id |-> u, role |-> y] <=> t = u /\ x = y
      OBVIOUS
    <3>2. [id |-> t, role |-> x] \in OfRows' <=>
             \E i \in DOMAIN rows : rows[i].look = "shown" /\ \E y \in RolesIn(i) :
                                       t = rows[i].id /\ x = y
      BY <1>e, <3>1
    <3> QED BY <3>2 DEF Shows
  <2> QED BY <2>2, <2>3
<1>7. ASSUME kind \in Assigning => ~late PROVE posted'.what = OfRows'
  <2>1. ASSUME NEW t \in Things, NEW x \in Roles PROVE Posts(t, x) <=> Shows(t, x)
    <3>1. CASE kind = "members" \/ kind \in Assigning
      <4>1. Agree
        BY <3>1, <1>1, <1>7 DEF DInv, MembersOK, AssigningOK
      <4> QED BY <3>1, <4>1, <1>2, KindIs DEF Agree, Posts
    <3>2. CASE kind \in Posting
      <4>1. /\ \A i \in DOMAIN rows : /\ rows[i].look = "shown" /\ rows[i].active = {"listed"}
                                      /\ rows[i].offers
            /\ x = "listed"
        BY <3>2, <1>1, <1>2, AllShown, KindIs DEF DInv, PostingOK, OffersOK
      <4> QED BY <3>2, <4>1 DEF Posts, Shows, RolesIn
    <3> QED BY <3>1, <3>2, <1>2, KindIs
  <2>r. \A t, x : Shows(t, x) => x \in Roles
    <3> SUFFICES ASSUME NEW t, NEW x, NEW i \in DOMAIN rows, x \in RolesIn(i) PROVE x \in Roles
      BY DEF Shows
    <3>1. CASE rows[i].offers
      BY <3>1, <1>5 DEF RolesIn
    <3>2. CASE ~rows[i].offers
      <4>1. kind \in Assigning /\ ~late
        BY <3>2, <1>7 DEF DInv, OffersOK
      <4>2. listed # None /\ rows[i].id \in DOMAIN listed /\ x \in listed[rows[i].id]
        BY <3>2 DEF RolesIn
      <4> QED BY <4>1, <4>2, <1>2, KindIs DEF DInv, OffersOK
    <3> QED BY <3>1, <3>2
  <2>2. ASSUME NEW t \in Things, NEW x \in Roles
        PROVE  [id |-> t, role |-> x] \in posted'.what <=> [id |-> t, role |-> x] \in OfRows'
    BY <2>1, <1>4, <1>6
  <2>3. ASSUME NEW e \in [id : Things, role : Roles]
        PROVE  e \in posted'.what <=> e \in OfRows'
    <3>1. e = [id |-> e.id, role |-> e.role] /\ e.id \in Things /\ e.role \in Roles
      OBVIOUS
    <3> QED BY <3>1, <2>2
  <2>4. \A e \in OfRows' : e \in [id : Things, role : Roles]
    BY <2>r, <1>6
  <2> QED BY <2>3, <2>4, <1>4
<1>8. ASSUME ~late, posted'.at = "Save", NEW i \in Present' PROVE RolesIn(i)' # {}
  <2>1. /\ i \in DOMAIN rows /\ rows[i].look = "shown" /\ ~rows'[i].empty
        /\ RolesIn(i)' = RolesIn(i)
    BY <1>3, <1>4, <1>8, <1>r DEF Present
  <2>2. CASE kind = "members"
    <3>1. rows[i].offers /\ rows[i].active # {}
      BY <2>1, <2>2, <1>1 DEF DInv, MembersOK, OffersOK, Assigning
    <3> QED BY <2>1, <3>1 DEF RolesIn
  <2>3. CASE kind \in Assigning
    <3>1. AssigningOK /\ i = First(rows, rows[i].id)
      BY <2>1, <2>3, <1>2, <1>8, FirstIs DEF DInv, AssigningOK
    <3>2. count[rows[i].id] = Cardinality(RolesIn(i)) /\ count[rows[i].id] # 0
      BY <2>1, <2>3, <3>1, <1>1, <1>3 DEF AssigningOK
    <3> QED BY <2>1, <3>2, FS_EmptySet
  <2>4. CASE kind \in Posting
    <3>1. rows[i].offers /\ rows[i].active = {"listed"}
      BY <2>1, <2>4, <1>2, KindIs DEF DInv, PostingOK, OffersOK
    <3> QED BY <2>1, <3>1 DEF RolesIn
  <2> QED BY <2>2, <2>3, <2>4, <1>2, KindIs
<1> QED BY <1>7, <1>8

LEMMA SubmitKeeps ==
    ASSUME DialogsAssumption, DInv, Submit, ~hasty' PROVE UntouchedKept'
<1>1. /\ UNCHANGED <<kind, answers, listed, touched, late>> /\ open = TRUE
  BY DEF Submit, Editing, DInv, DialogTypes
<1>2. Roles' = Roles
  BY <1>1, SameKind
<1> SUFFICES ASSUME posted' # None, ~late, answers = <<>>, listed # None,
                    NEW t \in DOMAIN listed \ touched, NEW x \in Roles
             PROVE  [id |-> t, role |-> x] \in posted'.what <=> x \in listed[t]
  BY <1>1, <1>2 DEF UntouchedKept
<1>3. [id |-> t, role |-> x] \in posted'.what <=> Posts(t, x)
  BY PostsWhat
<1>4. kind \in Kinds
  BY DEF DInv, DialogTypes
<1>5. Kept
  BY <1>1, <1>4, KindIs DEF DInv, MembersOK, AssigningOK, PostingOK
<1> QED BY <1>3, <1>5 DEF Kept

-----------------------------------------------------------------------------
(* The invariant and the properties. *)

\* Every action takes a page that has not been left by submitting.
LEMMA NothingAfter ==
    ASSUME DialogNext
    PROVE  posted = None /\ (hasty => hasty') /\ (Submit \/ posted' = posted)
<1>1. CASE OpenAndAsk
  BY <1>1 DEF OpenAndAsk, OpenDialog
<1>2. CASE OpenTrusted
  BY <1>2 DEF OpenTrusted, OpenDialog
<1>3. CASE Cancel
  BY <1>3 DEF Cancel, Editing
<1>4. CASE Submit
  BY <1>4 DEF Submit, Editing
<1>5. CASE \E i \in DOMAIN answers : Arrive(i)
  BY <1>5 DEF Arrive
<1>6. CASE \E t \in Things : Add(t)
  BY <1>6 DEF Add, Editing
<1>7. CASE \E i \in DOMAIN rows : RemoveRow(i)
  BY <1>7 DEF RemoveRow, Editing
<1>8. CASE \E i \in DOMAIN rows : \E x \in Roles : Role(i, x)
  BY <1>8 DEF Role, Editing
<1>9. CASE \E n \in fades : FadeEnd(n)
  BY <1>9 DEF FadeEnd
<1>10. CASE \E S \in SUBSET Things : Filter(S)
  <2>1. PICK S : Filter(S)
    BY <1>10
  <2>2. posted = None /\ UNCHANGED <<posted, hasty>>
    BY <2>1, Zenon DEF Filter, Editing
  <2> QED BY <2>2
<1> QED BY <1>1, <1>2, <1>3, <1>4, <1>5, <1>6, <1>7, <1>8, <1>9, <1>10 DEF DialogNext

LEMMA StepArrive ==
    ASSUME DialogsAssumption, DInv, NEW i \in DOMAIN answers, Arrive(i) PROVE DInv'
<1>1. CASE /\ answers[i] # None /\ offered' = TRUE
           /\ listed' = IF kind = "trusted" THEN listed ELSE answers[i]
  <2>1. PICK l : l = answers[i]
    OBVIOUS
  <2>2. /\ answers' = RemoveAt(answers, i)
        /\ UNCHANGED <<kind, fades, row, late>>
    BY DEF Arrive
  <2>3. CASE /\ \/ ArriveMembers(l) \/ ArriveUsers(l) \/ ArriveOrganizations(l)
                \/ ArriveAdministrators(l) \/ ArriveTrusted(l)
             /\ UNCHANGED <<open, button, touched>>
    <3>1. (listed' = IF kind = "trusted" THEN listed ELSE l) /\ offered' = TRUE
      BY <1>1, <2>1
    <3> QED BY <1>1, <2>1, <2>2, <2>3, <3>1, StepArriveMembers, StepArriveAssigned,
               StepArrivePosting
  <2>4. CASE answers[i] = None /\ Leave /\ open' = ~open /\ UNCHANGED <<serial, offered>>
    BY <1>1, <2>4
  <2> QED BY <2>1, <2>3, <2>4 DEF Arrive
<1>2. CASE answers[i] = None /\ Leave /\ open' = ~open /\ UNCHANGED <<serial, offered>>
  <2>1. answers' = RemoveAt(answers, i) /\ UNCHANGED <<kind, fades, row, late>>
    BY DEF Arrive
  <2> QED BY <1>2, <2>1, StepError
<1> QED BY <1>1, <1>2 DEF Arrive

LEMMA InitDInv == ASSUME DialogsAssumption, DialogInit PROVE DInv
<1>1. /\ kind \in Kinds /\ open = FALSE /\ list = <<>> /\ rows = <<>> /\ fades = {} /\ row = None
      /\ count = [t \in Things |-> None] /\ serial = 1 /\ listed = None /\ touched = {}
      /\ late = FALSE /\ offered \in BOOLEAN
      /\ answers \in IF kind = "trusted" THEN {<<l>> : l \in Listings} ELSE {<<>>}
  BY DEF DialogInit
<1>2. kind # "trusted" => answers = <<>>
  BY <1>1
<1>3. answers \in Seq(Listings \cup {None})
  <2>1. CASE kind = "trusted"
    <3>1. PICK l \in Listings : answers = <<l>>
      BY <1>1, <2>1
    <3> QED BY <3>1
  <2>2. CASE kind # "trusted"
    BY <2>2, <1>2
  <2> QED BY <2>1, <2>2
<1>4. DOMAIN rows = {} /\ DOMAIN list = {}
  BY <1>1
<1>5. DialogTypes
  <2>1. list \in Seq(Entry) /\ rows \in Seq(RowShape)
    BY <1>1
  <2>2. count \in [Things -> Int \cup {None, NaN}]
    BY <1>1
  <2> QED BY <1>1, <1>3, <2>1, <2>2 DEF DialogTypes
<1>6. NumbersOK /\ FadesOK /\ OffersOK
  BY <1>1, <1>4 DEF NumbersOK, Numbered, FadesOK, OffersOK
<1>7. Kept
  BY <1>1 DEF Kept
<1>8. IdsOnce(rows) /\ IdsOnce(list) /\ (\A t, x : ~Has(t, x)) /\ \A t, x : ~Shows(t, x)
  BY <1>4 DEF IdsOnce, Has, Shows
<1>9. kind = "members" => MembersOK
  BY <1>1, <1>2, <1>4, <1>7, <1>8 DEF MembersOK, Agree
<1>10. kind \in Assigning => AssigningOK
  BY <1>1, <1>2, <1>4, <1>8 DEF AssigningOK, Assigning
<1>11. kind \in Posting => PostingOK
  BY <1>1, <1>4, <1>7 DEF PostingOK
<1> QED BY <1>5, <1>6, <1>9, <1>10, <1>11 DEF DInv

\* A step of someone who has not been hasty.
LEMMA StepDInv ==
    ASSUME DialogsAssumption, DInv, [DialogNext]_dialogVars, ~hasty' PROVE DInv'
<1>1. CASE OpenAndAsk
  BY <1>1, StepOpenAndAsk
<1>2. CASE OpenTrusted
  BY <1>2, StepOpenTrusted
<1>3. CASE Cancel
  BY <1>3, StepCancel
<1>4. CASE Submit
  BY <1>4, StepSubmit
<1>5. CASE \E i \in DOMAIN answers : Arrive(i)
  BY <1>5, StepArrive
<1>6. CASE \E t \in Things : Add(t)
  BY <1>6, StepAdd
<1>7. CASE \E i \in DOMAIN rows : RemoveRow(i)
  BY <1>7, StepRemoveRow
<1>8. CASE \E i \in DOMAIN rows : \E x \in Roles : Role(i, x)
  BY <1>8, StepRole
<1>9. CASE \E n \in fades : FadeEnd(n)
  BY <1>9, StepFadeEnd
<1>10. CASE \E S \in SUBSET Things : Filter(S)
  BY <1>10, StepFilter
<1>11. CASE UNCHANGED dialogVars
  <2>1. UNCHANGED <<kind, open, answers, list, count, rows, fades, row, serial, offered, listed,
                    touched, late>>
    BY <1>11 DEF dialogVars
  <2>2. Roles' = Roles /\ Listings' = Listings /\ RowShape' = RowShape /\ Entry' = Entry
    BY <2>1, SameKind
  <2>3. DialogTypes' /\ NumbersOK' /\ FadesOK' /\ OffersOK'
    BY <2>1, <2>2 DEF DInv, DialogTypes, NumbersOK, Numbered, FadesOK, OffersOK, Assigning
  <2>r. \A i : RolesIn(i)' = RolesIn(i)
    BY <2>1 DEF RolesIn
  <2>4. (Agree => Agree') /\ (Kept => Kept')
    BY <2>1, <2>2, <2>r DEF Agree, Kept, Posts, Has, Shows
  <2>5. (IdsOnce(rows) => IdsOnce(rows)') /\ (IdsOnce(list) => IdsOnce(list)')
    BY <2>1 DEF IdsOnce
  <2>6. (MembersOK => MembersOK') /\ (AssigningOK => AssigningOK') /\ (PostingOK => PostingOK')
    BY <2>1, <2>4, <2>5, <2>r DEF MembersOK, AssigningOK, PostingOK
  <2> QED BY <2>1, <2>3, <2>6 DEF DInv
<1> QED BY <1>1, <1>2, <1>3, <1>4, <1>5, <1>6, <1>7, <1>8, <1>9, <1>10, <1>11 DEF DialogNext

\* What has been posted is not changed by anything that still happens.
PostedInv == (hasty \/ DInv) /\ PostedAsShown /\ UntouchedKept
LEMMA StepPosted ==
    ASSUME DialogsAssumption, PostedInv, [DialogNext]_dialogVars PROVE PostedInv'
<1>1. CASE UNCHANGED dialogVars
  <2>1. hasty' \/ DInv'
    BY <1>1, StepDInv DEF PostedInv, dialogVars
  <2>2. UNCHANGED <<kind, answers, rows, posted, listed, touched, hasty, late>>
    BY <1>1 DEF dialogVars
  <2>3. Roles' = Roles
    BY <2>2 DEF Roles
  <2>4. RolesIn(1)' = RolesIn(1) /\ \A i : RolesIn(i)' = RolesIn(i)
    BY <2>2 DEF RolesIn
  <2>5. Present' = Present /\ OfRows' = OfRows
    BY <2>2 DEF Present, OfRows, RolesIn
  <2>6. Assigning' = Assigning
    BY DEF Assigning
  <2> QED BY <2>1, <2>2, <2>3, <2>4, <2>5 DEF PostedInv, PostedAsShown, UntouchedKept, Assigning
<1>2. CASE DialogNext
  <2>1. posted = None /\ (hasty => hasty') /\ (Submit \/ posted' = posted)
    BY <1>2, NothingAfter
  <2>2. hasty' \/ DInv'
    BY <1>2, <2>1, StepDInv DEF PostedInv
  <2>3. CASE posted' = None \/ hasty'
    BY <2>2, <2>3 DEF PostedInv, PostedAsShown, UntouchedKept
  <2>4. CASE Submit /\ ~hasty'
    BY <2>1, <2>2, <2>4, SubmitShows, SubmitKeeps DEF PostedInv
  <2> QED BY <2>1, <2>3, <2>4
<1> QED BY <1>1, <1>2

LEMMA PostedAlways == ASSUME DialogsAssumption PROVE DialogsSpec => []PostedInv
<1>1. DialogInit => PostedInv
  BY InitDInv DEF PostedInv, DialogInit, PostedAsShown, UntouchedKept
<1>2. PostedInv /\ [DialogNext]_dialogVars => PostedInv'
  BY StepPosted
<1> QED BY <1>1, <1>2, PTL DEF DialogsSpec

\* Whoever saves a dialog gets its rows, whether or not the filter hides them,
\* with the roles that are marked in them and no others, or those that the server
\* sent where a row that was added before has none to mark; and saves a row
\* without a role after a warning only; of someone who is not hasty (the submit
\* handlers of the five scripts, which post an array kept next to the rows, or
\* the rows).
THEOREM DialogsPostTheirRows ==
  ASSUME DialogsAssumption PROVE DialogsSpec => []PostedAsShown
<1>1. PostedInv => PostedAsShown
  BY DEF PostedInv
<1> QED BY <1>1, PostedAlways, PTL

\* What nobody touched in a dialog is saved as the server sent it (the arrays
\* that handle_manage_members.js and the others fill from the answer).
THEOREM WhatIsNotTouchedIsKept ==
  ASSUME DialogsAssumption PROVE DialogsSpec => []UntouchedKept
<1>1. PostedInv => UntouchedKept
  BY DEF PostedInv
<1> QED BY <1>1, PostedAlways, PTL
=============================================================================
