--------------------------- MODULE MatchingProofs ---------------------------
(***************************************************************************)
(* What the pure functions of a search do, for any words, merchants and    *)
(* weights: the edit distance of module Merchants is symmetric, within its *)
(* bounds and zero for equal words only, and a typing error of any of the  *)
(* four kinds costs no more than one, so that the word still resolves; the *)
(* blend of module Ranking respects what is better in every factor.        *)
(*                                                                         *)
(* The distance is a recursive function over the cells of a table.  That   *)
(* there is such a function, and what it returns, is shown by induction    *)
(* over sets: of numbers, and of cells in the order they are filled in.    *)
(***************************************************************************)
EXTENDS Merchants, Ranking, FiniteSetTheorems, SequenceTheorems, WellFoundedInduction, TLAPS

----------------------------------------------------------------------------
(* Induction. *)

LEMMA Least ==
    ASSUME NEW S \in SUBSET Nat, S # {}
    PROVE  \E m \in S : \A n \in S : m <= n
<1> DEFINE R == OpToRel(<, Nat)
<1>1. \A m, n \in Nat : n < m => <<n, m>> \in R
    BY DEF OpToRel
<1>2. IsWellFoundedOn(R, Nat)
    BY NatLessThanWellFounded
<1> HIDE DEF R
<1>3. PICK m \in S : \A n \in S : ~(<<n, m>> \in R)
    BY <1>2, WFMin
<1>4. \A n \in S : ~(n < m)
    BY <1>1, <1>3
<1> QED BY <1>4

LEMMA Greatest ==
    ASSUME NEW S \in SUBSET Nat, IsFiniteSet(S), S # {}
    PROVE  \E m \in S : \A n \in S : n <= m
<1> DEFINE Above(m) == {n \in S : m < n}
           T == {Above(m) : m \in S}
<1>1. IsWellFoundedOn(StrictSubsetOrdering(S), FiniteSubsetsOf(S))
    BY FS_StrictSubsetOrderingWellFounded
<1>2. T \subseteq FiniteSubsetsOf(S) /\ T # {}
    <2>1. \A m \in S : Above(m) \in SUBSET S /\ IsFiniteSet(Above(m))
        BY FS_Subset
    <2> QED BY <2>1 DEF FiniteSubsetsOf
<1>3. PICK m \in S : \A n \in S : ~(<<Above(n), Above(m)>> \in StrictSubsetOrdering(S))
    <2>1. PICK U \in T : \A V \in T : ~(<<V, U>> \in StrictSubsetOrdering(S))
        BY <1>1, <1>2, WFMin
    <2> QED BY <2>1
<1>4. ASSUME NEW n \in S, ~(n <= m) PROVE FALSE
    <2>1. n \in Nat /\ m \in Nat /\ ~(n < n) /\ m < n
        BY <1>4
    <2>2. \A k \in S : k \in Nat
        OBVIOUS
    <2>3. \A k \in Above(n) : k \in Above(m)
        <3> TAKE k \in Above(n)
        <3>1. k \in S /\ k \in Nat /\ n < k
            BY <2>1, <2>2
        <3>2. m < k
            BY <2>1, <3>1
        <3> QED BY <3>1, <3>2
    <2>4. n \in Above(m) /\ n \notin Above(n)
        BY <2>1
    <2> QED BY <1>3, <2>3, <2>4 DEF StrictSubsetOrdering
<1> QED BY <1>4

(* A set that has 0, and with a number its successor, has all of them.     *)
LEMMA AllNumbers ==
    ASSUME NEW S, 0 \in S, \A n \in Nat : n \in S => n + 1 \in S
    PROVE  \A n \in Nat : n \in S
<1> SUFFICES ASSUME Nat \ S # {} PROVE FALSE
    OBVIOUS
<1>1. PICK m \in Nat \ S : \A n \in Nat \ S : m <= n
    BY Least
<1>2. m # 0 /\ m - 1 \in Nat /\ ~(m <= m - 1)
    BY <1>1
<1>3. m - 1 \in S
    BY <1>1, <1>2
<1>4. (m - 1) + 1 \in S
    BY <1>2, <1>3
<1> QED BY <1>1, <1>4

LEMMA CellsArePairs ==
    ASSUME NEW a, NEW b, Len(a) \in Nat, Len(b) \in Nat, NEW p \in Cells(a, b)
    PROVE  /\ p[1] \in Nat /\ p[2] \in Nat /\ p[1] + p[2] \in Nat
           /\ p[1] <= Len(a) /\ p[2] <= Len(b) /\ p = <<p[1], p[2]>>
<1>1. PICK i \in 0 .. Len(a), j \in 0 .. Len(b) : p = <<i, j>>
    BY DEF Cells
<1>2. p[1] = i /\ p[2] = j
    BY <1>1
<1> QED BY <1>1, <1>2

(* A set that has a cell if it has those filled in before has all of them. *)
LEMMA AllCells ==
    ASSUME NEW a, NEW b, Len(a) \in Nat, Len(b) \in Nat, NEW S,
           \A p \in Cells(a, b) :
              (\A q \in Cells(a, b) : q[1] + q[2] < p[1] + p[2] => q \in S) => p \in S
    PROVE  \A p \in Cells(a, b) : p \in S
<1> DEFINE T == {p[1] + p[2] : p \in Cells(a, b) \ S}
<1> SUFFICES ASSUME T # {} PROVE FALSE
    OBVIOUS
<1>1. \A p \in Cells(a, b) : p[1] + p[2] \in Nat
    BY CellsArePairs
<1>2. PICK m \in T : \A n \in T : m <= n
    <2>1. T \in SUBSET Nat
        BY <1>1
    <2> HIDE DEF T
    <2> QED BY <2>1, Least
<1>3. PICK p \in Cells(a, b) \ S : m = p[1] + p[2]
    OBVIOUS
<1>4. ASSUME NEW q \in Cells(a, b), q[1] + q[2] < p[1] + p[2], q \notin S PROVE FALSE
    <2>1. p[1] + p[2] <= q[1] + q[2]
        BY <1>2, <1>3, <1>4
    <2> QED BY <1>1, <1>4, <2>1
<1> QED BY <1>3, <1>4

----------------------------------------------------------------------------
(* The table of distances.  A cell depends on cells filled in before only, *)
(* so that one diagonal after the other can be filled in.                  *)

Table(a, b) == CHOOSE d : d = [p \in Cells(a, b) |-> Cell(d, a, b, p[1], p[2])]
Layer(a, b, n) == {p \in Cells(a, b) : p[1] + p[2] < n}

LEMMA CellLooksBack ==
    ASSUME NEW a, NEW b, Len(a) \in Nat, Len(b) \in Nat, NEW d, NEW e, NEW p \in Cells(a, b),
           \A q \in Cells(a, b) : q[1] + q[2] < p[1] + p[2] => d[q] = e[q]
    PROVE  Cell(d, a, b, p[1], p[2]) = Cell(e, a, b, p[1], p[2])
<1> SUFFICES ASSUME NEW i, i = p[1], NEW j, j = p[2]
             PROVE  Cell(d, a, b, i, j) = Cell(e, a, b, i, j)
    OBVIOUS
<1>1. i \in 0 .. Len(a) /\ j \in 0 .. Len(b)
    BY CellsArePairs
<1>2. ASSUME NEW x \in Nat, NEW y \in Nat, x <= i, y <= j, x + y < i + j
      PROVE  d[<<x, y>>] = e[<<x, y>>]
    <2>1. x \in 0 .. Len(a) /\ y \in 0 .. Len(b)
        BY <1>1, <1>2
    <2>2. <<x, y>> \in Cells(a, b)
        BY <2>1 DEF Cells
    <2>3. <<x, y>>[1] = x /\ <<x, y>>[2] = y
        OBVIOUS
    <2> QED BY <1>2, <2>2, <2>3
<1>3. CASE i > 0 /\ j > 0
    <2>1. d[<<i-1, j>>] = e[<<i-1, j>>] /\ d[<<i, j-1>>] = e[<<i, j-1>>]
        BY <1>1, <1>2, <1>3, SMTT(40)
    <2>2. d[<<i-1, j-1>>] = e[<<i-1, j-1>>]
        BY <1>1, <1>2, <1>3, SMTT(40)
    <2>3. ASSUME i > 1, j > 1 PROVE d[<<i-2, j-2>>] = e[<<i-2, j-2>>]
        <3>1. i - 2 \in Nat /\ j - 2 \in Nat /\ i - 2 <= i /\ j - 2 <= j /\ (i - 2) + (j - 2) < i + j
            BY <1>1, <2>3, SMTT(40)
        <3> QED BY <1>2, <3>1
    <2> QED BY <1>1, <1>3, <2>1, <2>2, <2>3 DEF Cell, Plain, Swapped
<1>4. CASE i = 0 \/ j = 0
    <2> QED BY <1>4 DEF Cell
<1> QED BY <1>1, <1>3, <1>4

LEMMA LayersFill ==
    ASSUME NEW a, NEW b, Len(a) \in Nat, Len(b) \in Nat
    PROVE  \A n \in Nat : \E d : \A p \in Layer(a, b, n) : d[p] = Cell(d, a, b, p[1], p[2])
<1> DEFINE Filled(d, n) == \A p \in Layer(a, b, n) : d[p] = Cell(d, a, b, p[1], p[2])
           S == {n \in Nat : \E d : Filled(d, n)}
<1>1. 0 \in S
    <2>1. Layer(a, b, 0) = {}
        BY CellsArePairs DEF Layer
    <2> QED BY <2>1
<1>2. ASSUME NEW n \in Nat, n \in S PROVE n + 1 \in S
    <2>1. PICK d : Filled(d, n)
        BY <1>2
    <2> DEFINE e == [p \in Cells(a, b) |-> Cell(d, a, b, p[1], p[2])]
    <2>2. ASSUME NEW p \in Layer(a, b, n + 1) PROVE e[p] = Cell(e, a, b, p[1], p[2])
        <3>1. p \in Cells(a, b) /\ p[1] + p[2] < n + 1
            BY DEF Layer
        <3>2. \A q \in Cells(a, b) : q[1] + q[2] < p[1] + p[2] => d[q] = e[q]
            <4> SUFFICES ASSUME NEW q \in Cells(a, b), q[1] + q[2] < p[1] + p[2]
                         PROVE  d[q] = e[q]
                OBVIOUS
            <4>1. q[1] + q[2] < n
                BY <3>1, CellsArePairs
            <4>2. q \in Layer(a, b, n)
                BY <4>1 DEF Layer
            <4>3. d[q] = Cell(d, a, b, q[1], q[2])
                BY <2>1, <4>2
            <4> QED BY <4>3
        <3> HIDE DEF e
        <3>3. Cell(d, a, b, p[1], p[2]) = Cell(e, a, b, p[1], p[2])
            BY <3>1, <3>2, CellLooksBack
        <3> QED BY <3>1, <3>3 DEF e
    <2> HIDE DEF e
    <2>3. Filled(e, n + 1)
        BY <2>2
    <2> HIDE DEF Filled
    <2> QED BY <2>3
<1> HIDE DEF S
<1>3. \A n \in Nat : n \in S
    BY <1>1, <1>2, AllNumbers
<1> QED BY <1>3 DEF S

(* The recursive function of Distance is one. *)
LEMMA TableExists ==
    ASSUME NEW a, NEW b, Len(a) \in Nat, Len(b) \in Nat
    PROVE  /\ Table(a, b) = [p \in Cells(a, b) |-> Cell(Table(a, b), a, b, p[1], p[2])]
           /\ Distance(a, b) = Table(a, b)[<<Len(a), Len(b)>>]
<1> DEFINE n == Len(a) + Len(b) + 1
<1>1. PICK d : \A p \in Layer(a, b, n) : d[p] = Cell(d, a, b, p[1], p[2])
    BY LayersFill
<1> DEFINE e == [p \in Cells(a, b) |-> Cell(d, a, b, p[1], p[2])]
<1>2. \A p \in Cells(a, b) : d[p] = e[p]
    <2> TAKE p \in Cells(a, b)
    <2>1. p \in Layer(a, b, n)
        BY CellsArePairs DEF Layer
    <2> QED BY <1>1, <2>1
<1>3. \A p \in Cells(a, b) : Cell(d, a, b, p[1], p[2]) = Cell(e, a, b, p[1], p[2])
    <2> HIDE DEF e
    <2> QED BY <1>2, CellLooksBack
<1>4. e = [p \in Cells(a, b) |-> Cell(e, a, b, p[1], p[2])]
    <2> DEFINE f == [p \in Cells(a, b) |-> Cell(e, a, b, p[1], p[2])]
    <2>1. \A p \in Cells(a, b) : e[p] = f[p]
        <3> SUFFICES ASSUME NEW p \in Cells(a, b) PROVE e[p] = f[p]
            OBVIOUS
        <3>1. e[p] = Cell(d, a, b, p[1], p[2])
            OBVIOUS
        <3> HIDE DEF e
        <3> QED BY <1>3, <3>1
    <2>2. DOMAIN e = Cells(a, b) /\ DOMAIN f = Cells(a, b)
        OBVIOUS
    <2>3. e = [p \in Cells(a, b) |-> e[p]] /\ f = [p \in Cells(a, b) |-> f[p]]
        OBVIOUS
    <2> HIDE DEF e, f
    <2>4. e = f
        BY <2>1, <2>3
    <2> QED BY <2>4 DEF f
<1> HIDE DEF e
<1>5. Table(a, b) = [p \in Cells(a, b) |-> Cell(Table(a, b), a, b, p[1], p[2])]
    BY <1>4 DEF Table
<1>6. Distance(a, b) = Table(a, b)[<<Len(a), Len(b)>>]
    BY DEF Distance, Table
<1> QED BY <1>5, <1>6

(* An entry of the table, given those before it. *)
Entry(a, b, i, j) == Table(a, b)[<<i, j>>]

LEMMA EntryIsCell ==
    ASSUME NEW a, NEW b, Len(a) \in Nat, Len(b) \in Nat,
           NEW i \in 0 .. Len(a), NEW j \in 0 .. Len(b)
    PROVE  Entry(a, b, i, j) = Cell(Table(a, b), a, b, i, j)
<1>1. <<i, j>> \in Cells(a, b) /\ <<i, j>>[1] = i /\ <<i, j>>[2] = j
    BY DEF Cells
<1> DEFINE d == Table(a, b)
<1>2. d = [p \in Cells(a, b) |-> Cell(d, a, b, p[1], p[2])]
    BY TableExists, ZenonT(60)
<1>3. d[<<i, j>>] = Cell(d, a, b, <<i, j>>[1], <<i, j>>[2])
    <2> HIDE DEF d
    <2> QED BY <1>1, <1>2
<1> QED BY <1>1, <1>3 DEF Entry

(* What holds at the border, and of an entry if it does of the four before *)
(* it, holds of every entry: AllCells, for a set of rows and columns.      *)
LEMMA AllEntries ==
    ASSUME NEW a, NEW b, Len(a) \in Nat, Len(b) \in Nat, NEW S,
           \A i \in 0 .. Len(a) : <<i, 0>> \in S,
           \A j \in 0 .. Len(b) : <<0, j>> \in S,
           \A i \in 1 .. Len(a), j \in 1 .. Len(b) :
              /\ <<i - 1, j>> \in S /\ <<i, j - 1>> \in S /\ <<i - 1, j - 1>> \in S
              /\ i > 1 /\ j > 1 => <<i - 2, j - 2>> \in S
              => <<i, j>> \in S
    PROVE  \A i \in 0 .. Len(a), j \in 0 .. Len(b) : <<i, j>> \in S
<1>1. ASSUME NEW p \in Cells(a, b),
             \A q \in Cells(a, b) : q[1] + q[2] < p[1] + p[2] => q \in S
      PROVE  p \in S
    <2>1. PICK i \in 0 .. Len(a), j \in 0 .. Len(b) : p = <<i, j>>
        BY DEF Cells
    <2>2. ASSUME NEW x \in 0 .. Len(a), NEW y \in 0 .. Len(b), x + y < i + j
          PROVE  <<x, y>> \in S
        <3>1. <<x, y>> \in Cells(a, b) /\ <<x, y>>[1] = x /\ <<x, y>>[2] = y
            BY DEF Cells
        <3>2. p[1] = i /\ p[2] = j
            BY <2>1
        <3> QED BY <1>1, <2>2, <3>1, <3>2
    <2>3. CASE i \in 1 .. Len(a) /\ j \in 1 .. Len(b)
        <3>1. i - 1 \in 0 .. Len(a) /\ j - 1 \in 0 .. Len(b)
            BY <2>3
        <3>2. <<i - 1, j>> \in S /\ <<i, j - 1>> \in S /\ <<i - 1, j - 1>> \in S
            <4>1. (i - 1) + j < i + j /\ i + (j - 1) < i + j /\ (i - 1) + (j - 1) < i + j
                OBVIOUS
            <4> QED BY <2>2, <3>1, <4>1
        <3>3. ASSUME i > 1, j > 1 PROVE <<i - 2, j - 2>> \in S
            <4>1. i - 2 \in 0 .. Len(a) /\ j - 2 \in 0 .. Len(b) /\ (i - 2) + (j - 2) < i + j
                BY <3>3
            <4> QED BY <2>2, <4>1
        <3> QED BY <2>1, <2>3, <3>2, <3>3
    <2> QED BY <2>1, <2>3
<1>2. \A p \in Cells(a, b) : p \in S
    BY <1>1, AllCells
<1> QED BY <1>2 DEF Cells

LEMMA EntryInside ==
    ASSUME NEW a, NEW b, Len(a) \in Nat, Len(b) \in Nat,
           NEW i \in 1 .. Len(a), NEW j \in 1 .. Len(b)
    PROVE  LET plain == Lower(Lower(Entry(a, b, i - 1, j), Entry(a, b, i, j - 1)) + 1,
                              Entry(a, b, i - 1, j - 1) + IF a[i] = b[j] THEN 0 ELSE 1)
           IN  Entry(a, b, i, j) = IF Swapped(a, b, i, j)
                                   THEN Lower(plain, Entry(a, b, i - 2, j - 2) + 1) ELSE plain
<1>1. i \in 0 .. Len(a) /\ j \in 0 .. Len(b) /\ i # 0 /\ j # 0
    OBVIOUS
<1>2. Entry(a, b, i, j) = Cell(Table(a, b), a, b, i, j)
    BY <1>1, EntryIsCell
<1> QED BY <1>1, <1>2 DEF Cell, Plain, Entry

LEMMA EntryAtBorder ==
    ASSUME NEW a, NEW b, Len(a) \in Nat, Len(b) \in Nat
    PROVE  /\ \A i \in 0 .. Len(a) : Entry(a, b, i, 0) = i
           /\ \A j \in 0 .. Len(b) : Entry(a, b, 0, j) = j
<1>1. 0 \in 0 .. Len(a) /\ 0 \in 0 .. Len(b)
    OBVIOUS
<1>2. ASSUME NEW i \in 0 .. Len(a) PROVE Entry(a, b, i, 0) = i
    <2>1. Entry(a, b, i, 0) = Cell(Table(a, b), a, b, i, 0)
        BY <1>1, EntryIsCell
    <2> QED BY <2>1 DEF Cell
<1>3. ASSUME NEW j \in 0 .. Len(b) PROVE Entry(a, b, 0, j) = j
    <2>1. Entry(a, b, 0, j) = Cell(Table(a, b), a, b, 0, j)
        BY <1>1, EntryIsCell
    <2> QED BY <2>1 DEF Cell
<1> QED BY <1>2, <1>3

(* An entry is no less than the difference of the lengths and no more than *)
(* the greater of them.                                                    *)
Within(x, i, j) == x \in Nat /\ i - j <= x /\ j - i <= x /\ (x <= i \/ x <= j)

LEMMA WithinAfterStep ==
    ASSUME NEW i \in Nat, NEW j \in Nat, i > 0, j > 0, NEW x, NEW y, NEW z, NEW c \in 0 .. 1,
           Within(x, i - 1, j), Within(y, i, j - 1), Within(z, i - 1, j - 1)
    PROVE  Within(Lower(Lower(x, y) + 1, z + c), i, j)
<1>1. x \in Nat /\ y \in Nat /\ z \in Nat
    BY DEF Within
<1>2. Lower(x, y) + 1 \in Nat /\ i - j <= Lower(x, y) + 1 /\ j - i <= Lower(x, y) + 1
    BY <1>1 DEF Within, Lower
<1>3. Within(z + c, i, j)
    BY <1>1 DEF Within
<1> QED BY <1>2, <1>3 DEF Within, Lower

LEMMA EntriesWithin ==
    ASSUME NEW a, NEW b, Len(a) \in Nat, Len(b) \in Nat
    PROVE  \A i \in 0 .. Len(a), j \in 0 .. Len(b) : Within(Entry(a, b, i, j), i, j)
<1> DEFINE S == {p \in (0 .. Len(a)) \X (0 .. Len(b)) : Within(Entry(a, b, p[1], p[2]), p[1], p[2])}
<1>1. \A i \in 0 .. Len(a), j \in 0 .. Len(b) :
        <<i, j>> \in S <=> Within(Entry(a, b, i, j), i, j)
    OBVIOUS
<1> HIDE DEF S
<1>2. ASSUME NEW i \in 1 .. Len(a), NEW j \in 1 .. Len(b),
             <<i - 1, j>> \in S, <<i, j - 1>> \in S, <<i - 1, j - 1>> \in S,
             i > 1 /\ j > 1 => <<i - 2, j - 2>> \in S
      PROVE  <<i, j>> \in S
    <2>1. /\ i \in 0 .. Len(a) /\ j \in 0 .. Len(b)
          /\ i - 1 \in 0 .. Len(a) /\ j - 1 \in 0 .. Len(b)
        OBVIOUS
    <2>2. /\ Within(Entry(a, b, i - 1, j), i - 1, j)
          /\ Within(Entry(a, b, i, j - 1), i, j - 1)
          /\ Within(Entry(a, b, i - 1, j - 1), i - 1, j - 1)
        BY <1>1, <1>2, <2>1
    <2>3. Swapped(a, b, i, j) => Within(Entry(a, b, i - 2, j - 2), i - 2, j - 2)
        <3> SUFFICES ASSUME i > 1, j > 1
                     PROVE  Within(Entry(a, b, i - 2, j - 2), i - 2, j - 2)
            BY DEF Swapped
        <3>1. i - 2 \in 0 .. Len(a) /\ j - 2 \in 0 .. Len(b)
            OBVIOUS
        <3> QED BY <1>1, <1>2, <3>1
    <2>4. PICK x, y, z, o : /\ x = Entry(a, b, i - 1, j) /\ y = Entry(a, b, i, j - 1)
                            /\ z = Entry(a, b, i - 1, j - 1) /\ o = Entry(a, b, i - 2, j - 2)
        OBVIOUS
    <2> DEFINE plain == Lower(Lower(x, y) + 1, z + IF a[i] = b[j] THEN 0 ELSE 1)
    <2>5. Within(plain, i, j)
        <3>1. PICK c \in 0 .. 1 : c = IF a[i] = b[j] THEN 0 ELSE 1
            OBVIOUS
        <3>2. Within(Lower(Lower(x, y) + 1, z + c), i, j)
            <4>1. i \in Nat /\ j \in Nat /\ i > 0 /\ j > 0
                OBVIOUS
            <4>2. Within(x, i - 1, j) /\ Within(y, i, j - 1) /\ Within(z, i - 1, j - 1)
                BY <2>2, <2>4
            <4> QED BY <4>1, <4>2, WithinAfterStep
        <3> QED BY <3>1, <3>2
    <2>6. Swapped(a, b, i, j) => Within(Lower(plain, o + 1), i, j)
        <3> HIDE DEF plain
        <3> QED BY <2>3, <2>4, <2>5, SMTT(40) DEF Within, Lower
    <2>7. Entry(a, b, i, j) = IF Swapped(a, b, i, j) THEN Lower(plain, o + 1) ELSE plain
        BY <2>4, EntryInside
    <2> HIDE DEF plain
    <2> QED BY <1>1, <2>1, <2>5, <2>6, <2>7
<1>3. \A i \in 0 .. Len(a) : <<i, 0>> \in S
    BY <1>1, EntryAtBorder DEF Within
<1>4. \A j \in 0 .. Len(b) : <<0, j>> \in S
    BY <1>1, EntryAtBorder DEF Within
<1>5. \A i \in 0 .. Len(a), j \in 0 .. Len(b) : <<i, j>> \in S
    BY <1>2, <1>3, <1>4, AllEntries
<1> QED BY <1>1, <1>5

(* An entry exceeds one before it by no more than what the edit costs.     *)
LEMMA EditsCost ==
    ASSUME NEW a, NEW b, Len(a) \in Nat, Len(b) \in Nat,
           NEW i \in 0 .. Len(a), NEW j \in 0 .. Len(b)
    PROVE  /\ i > 0 => Entry(a, b, i, j) <= Entry(a, b, i - 1, j) + 1
           /\ j > 0 => Entry(a, b, i, j) <= Entry(a, b, i, j - 1) + 1
           /\ i > 0 /\ j > 0 => Entry(a, b, i, j) <= Entry(a, b, i - 1, j - 1) + 1
           /\ i > 0 /\ j > 0 /\ a[i] = b[j] => Entry(a, b, i, j) <= Entry(a, b, i - 1, j - 1)
           /\ Swapped(a, b, i, j) => Entry(a, b, i, j) <= Entry(a, b, i - 2, j - 2) + 1
<1>1. CASE i = 0 \/ j = 0
    <2>1. i > 0 => i - 1 \in 0 .. Len(a)
        OBVIOUS
    <2>2. j > 0 => j - 1 \in 0 .. Len(b)
        OBVIOUS
    <2>3. 0 \in 0 .. Len(a) /\ 0 \in 0 .. Len(b)
        OBVIOUS
    <2> QED BY <1>1, <2>1, <2>2, <2>3, EntryAtBorder DEF Swapped
<1>2. CASE i > 0 /\ j > 0
    <2>1. i \in 1 .. Len(a) /\ j \in 1 .. Len(b) /\ i - 1 \in 0 .. Len(a) /\ j - 1 \in 0 .. Len(b)
        BY <1>2
    <2>2. PICK x, y, z, o : /\ x = Entry(a, b, i - 1, j) /\ y = Entry(a, b, i, j - 1)
                            /\ z = Entry(a, b, i - 1, j - 1) /\ o = Entry(a, b, i - 2, j - 2)
        OBVIOUS
    <2>3. x \in Nat /\ y \in Nat /\ z \in Nat
        BY <2>1, <2>2, EntriesWithin DEF Within
    <2>4. Swapped(a, b, i, j) => o \in Nat
        <3>1. Swapped(a, b, i, j) => i - 2 \in 0 .. Len(a) /\ j - 2 \in 0 .. Len(b)
            BY DEF Swapped
        <3> QED BY <2>2, <3>1, EntriesWithin DEF Within
    <2> DEFINE plain == Lower(Lower(x, y) + 1, z + IF a[i] = b[j] THEN 0 ELSE 1)
    <2>5. Entry(a, b, i, j) = IF Swapped(a, b, i, j) THEN Lower(plain, o + 1) ELSE plain
        BY <2>1, <2>2, EntryInside
    <2>6. /\ plain \in Nat /\ plain <= x + 1 /\ plain <= y + 1 /\ plain <= z + 1
          /\ a[i] = b[j] => plain <= z
        BY <2>3, SMTT(40) DEF Lower
    <2> HIDE DEF plain
    <2>7. PICK e : e = Entry(a, b, i, j)
        OBVIOUS
    <2>8. e \in Nat /\ e <= plain /\ (Swapped(a, b, i, j) => e <= o + 1)
        BY <2>4, <2>5, <2>6, <2>7 DEF Lower
    <2>9. e <= x + 1 /\ e <= y + 1 /\ e <= z + 1 /\ (a[i] = b[j] => e <= z)
        BY <2>3, <2>6, <2>8
    <2> QED BY <2>2, <2>7, <2>8, <2>9
<1> QED BY <1>1, <1>2

(* The letters that two words have in common cost nothing.                 *)
LEMMA SameLettersAreFree ==
    ASSUME NEW a, NEW b, Len(a) \in Nat, Len(b) \in Nat,
           NEW i \in 0 .. Len(a), NEW j \in 0 .. Len(b), NEW n \in Nat,
           i + n <= Len(a), j + n <= Len(b), \A k \in 1 .. n : a[i + k] = b[j + k]
    PROVE  Entry(a, b, i + n, j + n) <= Entry(a, b, i, j)
<1> DEFINE S == {m \in Nat : m <= n => Entry(a, b, i + m, j + m) <= Entry(a, b, i, j)}
<1>1. Entry(a, b, i, j) \in Nat
    BY EntriesWithin DEF Within
<1>2. 0 \in S
    BY <1>1
<1>3. ASSUME NEW m \in Nat, m \in S PROVE m + 1 \in S
    <2> SUFFICES ASSUME m + 1 <= n
                 PROVE  Entry(a, b, i + (m + 1), j + (m + 1)) <= Entry(a, b, i, j)
        OBVIOUS
    <2>1. PICK x, y : x = i + (m + 1) /\ y = j + (m + 1)
        OBVIOUS
    <2>2. /\ x \in 0 .. Len(a) /\ y \in 0 .. Len(b) /\ x > 0 /\ y > 0
          /\ x - 1 = i + m /\ y - 1 = j + m /\ x - 1 \in 0 .. Len(a) /\ y - 1 \in 0 .. Len(b)
        BY <2>1
    <2>3. a[x] = b[y]
        <3>1. m + 1 \in 1 .. n
            OBVIOUS
        <3> QED BY <2>1, <3>1
    <2>4. Entry(a, b, x, y) <= Entry(a, b, x - 1, y - 1)
        BY <2>2, <2>3, EditsCost
    <2>5. Entry(a, b, x, y) \in Nat /\ Entry(a, b, x - 1, y - 1) \in Nat
        BY <2>2, EntriesWithin DEF Within
    <2>6. Entry(a, b, x - 1, y - 1) <= Entry(a, b, i, j)
        BY <1>3, <2>2
    <2> QED BY <1>1, <2>1, <2>4, <2>5, <2>6
<1> HIDE DEF S
<1>4. n \in S
    BY <1>2, <1>3, AllNumbers
<1> QED BY <1>4 DEF S

(* Only equal beginnings are at no distance.                               *)
LEMMA NoDistanceIsSame ==
    ASSUME NEW a, NEW b, Len(a) \in Nat, Len(b) \in Nat
    PROVE  \A i \in 0 .. Len(a), j \in 0 .. Len(b) :
              Entry(a, b, i, j) = 0 => i = j /\ \A k \in 1 .. i : a[k] = b[k]
<1> DEFINE Same(i, j) == Entry(a, b, i, j) = 0 => i = j /\ \A k \in 1 .. i : a[k] = b[k]
           S == {p \in (0 .. Len(a)) \X (0 .. Len(b)) : Same(p[1], p[2])}
<1>1. \A i \in 0 .. Len(a), j \in 0 .. Len(b) : <<i, j>> \in S <=> Same(i, j)
    OBVIOUS
<1> HIDE DEF S
<1>2. ASSUME NEW i \in 1 .. Len(a), NEW j \in 1 .. Len(b), <<i - 1, j - 1>> \in S
      PROVE  <<i, j>> \in S
    <2>1. /\ i \in 0 .. Len(a) /\ j \in 0 .. Len(b)
          /\ i - 1 \in 0 .. Len(a) /\ j - 1 \in 0 .. Len(b)
        OBVIOUS
    <2> SUFFICES ASSUME Entry(a, b, i, j) = 0 PROVE i = j /\ \A k \in 1 .. i : a[k] = b[k]
        BY <1>1, <2>1
    <2>2. i = j
        BY <2>1, EntriesWithin DEF Within
    <2>3. PICK x, y, z, o : /\ x = Entry(a, b, i - 1, j) /\ y = Entry(a, b, i, j - 1)
                            /\ z = Entry(a, b, i - 1, j - 1) /\ o = Entry(a, b, i - 2, j - 2)
        OBVIOUS
    <2>4. x \in Nat /\ y \in Nat /\ z \in Nat
        BY <2>1, <2>3, EntriesWithin DEF Within
    <2>5. Swapped(a, b, i, j) => o \in Nat
        <3>1. Swapped(a, b, i, j) => i - 2 \in 0 .. Len(a) /\ j - 2 \in 0 .. Len(b)
            BY DEF Swapped
        <3> QED BY <2>3, <3>1, EntriesWithin DEF Within
    <2> DEFINE plain == Lower(Lower(x, y) + 1, z + IF a[i] = b[j] THEN 0 ELSE 1)
    <2>6. Entry(a, b, i, j) = IF Swapped(a, b, i, j) THEN Lower(plain, o + 1) ELSE plain
        BY <2>3, EntryInside
    <2>7. plain \in Nat /\ (plain = 0 => z = 0 /\ a[i] = b[j])
        BY <2>4 DEF Lower
    <2> HIDE DEF plain
    <2>8. plain = 0
        BY <2>5, <2>6, <2>7 DEF Lower
    <2>9. \A k \in 1 .. i - 1 : a[k] = b[k]
        BY <1>1, <1>2, <2>1, <2>3, <2>7, <2>8
    <2> QED BY <2>2, <2>7, <2>8, <2>9
<1>3. /\ \A i \in 0 .. Len(a) : <<i, 0>> \in S
      /\ \A j \in 0 .. Len(b) : <<0, j>> \in S
    <2>1. 0 \in 0 .. Len(a) /\ 0 \in 0 .. Len(b)
        OBVIOUS
    <2>2. \A i \in 0 .. Len(a) : Same(i, 0)
        BY EntryAtBorder
    <2>3. \A j \in 0 .. Len(b) : Same(0, j)
        BY EntryAtBorder
    <2> QED BY <1>1, <2>1, <2>2, <2>3
<1>4. \A i \in 0 .. Len(a), j \in 0 .. Len(b) : <<i, j>> \in S
    <2> HIDE DEF Same
    <2> QED BY <1>2, <1>3, AllEntries
<1> QED BY <1>1, <1>4

LEMMA Transposed ==
    ASSUME NEW a, NEW b, Len(a) \in Nat, Len(b) \in Nat
    PROVE  \A i \in 0 .. Len(a), j \in 0 .. Len(b) : Entry(a, b, i, j) = Entry(b, a, j, i)
<1> DEFINE S == {p \in (0 .. Len(a)) \X (0 .. Len(b)) :
                    Entry(a, b, p[1], p[2]) = Entry(b, a, p[2], p[1])}
<1>1. \A i \in 0 .. Len(a), j \in 0 .. Len(b) :
        <<i, j>> \in S <=> Entry(a, b, i, j) = Entry(b, a, j, i)
    OBVIOUS
<1> HIDE DEF S
<1>2. ASSUME NEW i \in 1 .. Len(a), NEW j \in 1 .. Len(b),
             <<i - 1, j>> \in S, <<i, j - 1>> \in S, <<i - 1, j - 1>> \in S,
             i > 1 /\ j > 1 => <<i - 2, j - 2>> \in S
      PROVE  <<i, j>> \in S
    <2>1. /\ i \in 0 .. Len(a) /\ j \in 0 .. Len(b)
          /\ i - 1 \in 0 .. Len(a) /\ j - 1 \in 0 .. Len(b)
        OBVIOUS
    <2>2. PICK x, y, z, o : /\ x = Entry(a, b, i - 1, j) /\ y = Entry(a, b, i, j - 1)
                            /\ z = Entry(a, b, i - 1, j - 1) /\ o = Entry(a, b, i - 2, j - 2)
        OBVIOUS
    <2>3. /\ x = Entry(b, a, j, i - 1) /\ y = Entry(b, a, j - 1, i)
          /\ z = Entry(b, a, j - 1, i - 1) /\ x \in Nat /\ y \in Nat
        BY <1>1, <1>2, <2>1, <2>2, EntriesWithin DEF Within
    <2>4. Swapped(a, b, i, j) => o = Entry(b, a, j - 2, i - 2)
        <3>1. Swapped(a, b, i, j) => i > 1 /\ j > 1 /\ i - 2 \in 0 .. Len(a) /\ j - 2 \in 0 .. Len(b)
            BY DEF Swapped
        <3> QED BY <1>1, <1>2, <2>2, <3>1
    <2>5. Swapped(a, b, i, j) <=> Swapped(b, a, j, i)
        BY DEF Swapped
    <2>6. Lower(x, y) = Lower(y, x)
        BY <2>3 DEF Lower
    <2>7. PICK c : c = IF a[i] = b[j] THEN 0 ELSE 1
        OBVIOUS
    <2>8. Entry(a, b, i, j) = IF Swapped(a, b, i, j) THEN Lower(Lower(Lower(x, y) + 1, z + c), o + 1)
                              ELSE Lower(Lower(x, y) + 1, z + c)
        BY <2>2, <2>7, EntryInside
    <2>9. Entry(b, a, j, i) = IF Swapped(b, a, j, i) THEN Lower(Lower(Lower(y, x) + 1, z + c), o + 1)
                              ELSE Lower(Lower(y, x) + 1, z + c)
        <3>1. c = IF b[j] = a[i] THEN 0 ELSE 1
            BY <2>7
        <3> QED BY <2>3, <2>4, <2>5, <3>1, EntryInside
    <2> QED BY <1>1, <2>1, <2>5, <2>6, <2>8, <2>9
<1>3. /\ \A i \in 0 .. Len(a) : <<i, 0>> \in S
      /\ \A j \in 0 .. Len(b) : <<0, j>> \in S
    <2>1. 0 \in 0 .. Len(a) /\ 0 \in 0 .. Len(b)
        OBVIOUS
    <2> QED BY <1>1, <2>1, EntryAtBorder
<1>4. \A i \in 0 .. Len(a), j \in 0 .. Len(b) : <<i, j>> \in S
    BY <1>2, <1>3, AllEntries
<1> QED BY <1>1, <1>4

(* The distance of two words is the same either way, zero for equal words  *)
(* only -- so that levenshtein of utils/text.py may return early for those *)
(* and for an empty one -- at least the difference of their lengths and at *)
(* most the length of the longer one, so that similarity is from 0 to 1.   *)
THEOREM DistanceIsSound ==
    ASSUME NEW S, NEW a \in Seq(S), NEW b \in Seq(S)
    PROVE  /\ Distance(a, b) \in Nat /\ Distance(a, b) = Distance(b, a)
           /\ Distance(a, b) = 0 <=> a = b
           /\ Len(a) - Len(b) <= Distance(a, b) /\ Len(b) - Len(a) <= Distance(a, b)
           /\ Distance(a, b) <= Longer(a, b)
           /\ Len(a) = 0 => Distance(a, b) = Len(b)
           /\ Len(b) = 0 => Distance(a, b) = Len(a)
<1>1. /\ Len(a) \in Nat /\ Len(b) \in Nat
      /\ Len(a) \in 0 .. Len(a) /\ Len(b) \in 0 .. Len(b) /\ 0 \in 0 .. Len(a) /\ 0 \in 0 .. Len(b)
    BY LenProperties
<1>2. Distance(a, b) = Entry(a, b, Len(a), Len(b)) /\ Distance(b, a) = Entry(b, a, Len(b), Len(a))
    BY <1>1, TableExists DEF Entry
<1>3. Distance(a, b) = Distance(b, a)
    BY <1>1, <1>2, Transposed
<1>4. Within(Distance(a, b), Len(a), Len(b))
    BY <1>1, <1>2, EntriesWithin
<1>5. ASSUME Distance(a, b) = 0 PROVE a = b
    <2>1. Entry(a, b, Len(a), Len(b)) = 0
        BY <1>2, <1>5
    <2>2. Len(a) = Len(b) /\ \A k \in 1 .. Len(a) : a[k] = b[k]
        BY <1>1, <2>1, NoDistanceIsSame
    <2> QED BY <2>2, SeqEqual
<1>6. ASSUME a = b PROVE Distance(a, b) = 0
    <2>1. Entry(a, b, 0 + Len(a), 0 + Len(a)) <= Entry(a, b, 0, 0)
        BY <1>1, <1>6, SameLettersAreFree
    <2>2. Entry(a, b, 0, 0) = 0
        BY <1>1, EntryAtBorder
    <2>3. 0 + Len(a) = Len(a) /\ Len(b) = Len(a)
        BY <1>1, <1>6
    <2> QED BY <1>2, <1>4, <2>1, <2>2, <2>3 DEF Within
<1>7. /\ Len(a) = 0 => Distance(a, b) = Len(b)
      /\ Len(b) = 0 => Distance(a, b) = Len(a)
    BY <1>1, <1>2, EntryAtBorder
<1> QED BY <1>1, <1>3, <1>4, <1>5, <1>6, <1>7 DEF Within, Longer

----------------------------------------------------------------------------
(* A typing error of any of the four kinds costs one at most: the words    *)
(* are the same before it and after it.                                    *)

LEMMA OneDetourCostsOne ==
    ASSUME NEW a, NEW b, Len(a) \in Nat, Len(b) \in Nat,
           NEW i \in 0 .. Len(a), NEW x \in i .. Len(a), NEW y \in i .. Len(b),
           Len(a) - x = Len(b) - y, \A k \in 1 .. i : a[k] = b[k],
           \A k \in 1 .. Len(a) - x : a[x + k] = b[y + k],
           Entry(a, b, x, y) <= Entry(a, b, i, i) + 1
    PROVE  Distance(a, b) <= 1
<1>1. i \in 0 .. Len(b) /\ x \in 0 .. Len(a) /\ y \in 0 .. Len(b) /\ i \in Nat
    OBVIOUS
<1>2. Entry(a, b, i, i) <= 0
    <2>1. Entry(a, b, 0 + i, 0 + i) <= Entry(a, b, 0, 0)
        <3>1. /\ 0 \in 0 .. Len(a) /\ 0 \in 0 .. Len(b) /\ 0 + i <= Len(a) /\ 0 + i <= Len(b)
              /\ \A k \in 1 .. i : a[0 + k] = b[0 + k]
            BY <1>1
        <3> QED BY <1>1, <3>1, SameLettersAreFree
    <2>2. Entry(a, b, 0, 0) = 0 /\ 0 + i = i
        BY <1>1, EntryAtBorder
    <2> QED BY <2>1, <2>2
<1>3. Distance(a, b) <= Entry(a, b, x, y)
    <2>1. PICK n \in Nat : n = Len(a) - x /\ n = Len(b) - y
        BY <1>1
    <2>2. Entry(a, b, x + n, y + n) <= Entry(a, b, x, y)
        <3>1. x + n <= Len(a) /\ y + n <= Len(b) /\ \A k \in 1 .. n : a[x + k] = b[y + k]
            BY <1>1, <2>1
        <3> QED BY <1>1, <3>1, SameLettersAreFree
    <2>3. x + n = Len(a) /\ y + n = Len(b)
        BY <1>1, <2>1
    <2> QED BY <2>2, <2>3, TableExists, SMTT(40) DEF Entry
<1>4. /\ Entry(a, b, i, i) \in Nat /\ Entry(a, b, x, y) \in Nat
      /\ Entry(a, b, Len(a), Len(b)) \in Nat /\ Distance(a, b) = Entry(a, b, Len(a), Len(b))
    <2>1. Len(a) \in 0 .. Len(a) /\ Len(b) \in 0 .. Len(b)
        OBVIOUS
    <2> QED BY <1>1, <2>1, EntriesWithin, TableExists DEF Within, Entry
<1> QED BY <1>2, <1>3, <1>4

LEMMA LetterMore ==
    ASSUME NEW S, NEW a \in Seq(S), NEW i \in 1 .. Len(a)
    PROVE  /\ Distance(a, RemoveAt(a, i)) <= 1
           /\ RemoveAt(a, i) \in Seq(S) /\ Len(RemoveAt(a, i)) = Len(a) - 1
<1> DEFINE b == RemoveAt(a, i)
<1>1. Len(a) \in Nat /\ Len(a) > 0 /\ i \in Nat /\ i - 1 \in Nat
    BY LenProperties
<1>2. /\ SubSeq(a, 1, i - 1) \in Seq(S) /\ Len(SubSeq(a, 1, i - 1)) = i - 1
      /\ \A k \in 1 .. i - 1 : SubSeq(a, 1, i - 1)[k] = a[k]
    BY <1>1
<1>3. /\ SubSeq(a, i + 1, Len(a)) \in Seq(S) /\ Len(SubSeq(a, i + 1, Len(a))) = Len(a) - i
      /\ \A k \in 1 .. Len(a) - i : SubSeq(a, i + 1, Len(a))[k] = a[i + k]
    BY <1>1
<1>4. /\ b \in Seq(S) /\ Len(b) = Len(a) - 1
      /\ \A k \in 1 .. i - 1 : b[k] = a[k]
      /\ \A k \in 1 .. Len(a) - i : b[(i - 1) + k] = a[i + k]
    <2>1. PICK s, t : s = SubSeq(a, 1, i - 1) /\ t = SubSeq(a, i + 1, Len(a))
        OBVIOUS
    <2>2. /\ s \in Seq(S) /\ t \in Seq(S) /\ Len(s) = i - 1 /\ Len(t) = Len(a) - i
          /\ \A k \in 1 .. i - 1 : s[k] = a[k]
          /\ \A k \in 1 .. Len(a) - i : t[k] = a[i + k]
        BY <1>2, <1>3, <2>1
    <2>3. b = s \o t
        BY <2>1 DEF RemoveAt
    <2>4. /\ b \in Seq(S) /\ Len(b) = Len(s) + Len(t)
          /\ \A k \in 1 .. Len(s) + Len(t) : b[k] = IF k <= Len(s) THEN s[k] ELSE t[k - Len(s)]
        BY <2>2, <2>3, ConcatProperties, SMTT(40)
    <2>5. Len(b) = Len(a) - 1
        BY <1>1, <2>2, <2>4
    <2>6. ASSUME NEW k \in 1 .. i - 1 PROVE b[k] = a[k]
        <3>1. k \in 1 .. Len(s) + Len(t) /\ k <= Len(s)
            BY <1>1, <2>2
        <3> QED BY <2>2, <2>4, <3>1
    <2>7. ASSUME NEW k \in 1 .. Len(a) - i PROVE b[(i - 1) + k] = a[i + k]
        <3>1. /\ (i - 1) + k \in 1 .. Len(s) + Len(t) /\ ~((i - 1) + k <= Len(s))
              /\ ((i - 1) + k) - Len(s) = k
            BY <1>1, <2>2
        <3>2. b[(i - 1) + k] = t[k]
            BY <2>4, <3>1
        <3> QED BY <2>2, <3>2
    <2> QED BY <2>4, <2>5, <2>6, <2>7
<1> HIDE DEF b
<1>5. Entry(a, b, i, i - 1) <= Entry(a, b, i - 1, i - 1) + 1
    BY <1>1, <1>4, EditsCost
<1>6. Distance(a, b) <= 1
    <2>1. PICK h : h = i - 1
        OBVIOUS
    <2>2. /\ Len(b) \in Nat /\ h \in 0 .. Len(a) /\ i \in h .. Len(a) /\ h \in h .. Len(b)
          /\ Len(a) - i = Len(b) - h
        BY <1>1, <1>4, <2>1
    <2>3. /\ \A k \in 1 .. h : a[k] = b[k]
          /\ \A k \in 1 .. Len(a) - i : a[i + k] = b[h + k]
          /\ Entry(a, b, i, h) <= Entry(a, b, h, h) + 1
        BY <1>4, <1>5, <2>1
    <2> QED BY <1>1, <2>2, <2>3, OneDetourCostsOne
<1> QED BY <1>4, <1>6 DEF b

LEMMA AnotherLetter ==
    ASSUME NEW S, NEW a \in Seq(S), NEW b \in Seq(S), Len(a) = Len(b),
           Cardinality({i \in DOMAIN a : a[i] # b[i]}) <= 1
    PROVE  Distance(a, b) <= 1
<1> DEFINE T == {i \in DOMAIN a : a[i] # b[i]}
<1>1. Len(a) \in Nat /\ Len(b) \in Nat /\ DOMAIN a = 1 .. Len(a)
    BY LenProperties
<1>2. IsFiniteSet(T)
    <2>1. T \subseteq 1 .. Len(a) /\ 1 \in Int /\ Len(a) \in Int
        BY <1>1
    <2> HIDE DEF T
    <2> QED BY <2>1, FS_Interval, FS_Subset
<1>3. CASE T = {}
    <2>1. a = b
        BY <1>1, <1>3, SeqEqual
    <2>2. Distance(a, b) = 0
        BY <2>1, DistanceIsSound
    <2> QED BY <2>2
<1>4. CASE T # {}
    <2>1. PICK j \in T : TRUE
        BY <1>4
    <2>2. \A k \in T : k = j
        <3> HIDE DEF T
        <3> SUFFICES ASSUME NEW k \in T, k # j PROVE FALSE
            OBVIOUS
        <3>1. IsFiniteSet({j}) /\ Cardinality({j}) = 1 /\ k \notin {j}
            BY FS_Singleton
        <3>2. Cardinality({j} \cup {k}) = 1 + 1
            <4>1. Cardinality({j} \cup {k}) = Cardinality({j}) + 1
                <5> DEFINE U == {j}
                <5>1. IsFiniteSet(U) /\ k \notin U
                    BY <3>1
                <5> HIDE DEF U
                <5>2. Cardinality(U \cup {k}) = Cardinality(U) + 1
                    BY <5>1, FS_AddElement
                <5> QED BY <5>2 DEF U
            <4> QED BY <3>1, <4>1
        <3>3. {j} \cup {k} \in SUBSET T
            OBVIOUS
        <3>4. Cardinality({j} \cup {k}) <= Cardinality(T)
            BY <1>2, <3>3, FS_Subset
        <3>5. PICK c \in Nat : c = Cardinality(T) /\ c <= 1
            BY <1>2, FS_CardinalityType DEF T
        <3>6. 1 + 1 <= c
            BY <3>2, <3>4, <3>5
        <3> QED BY <3>5, <3>6
    <2>3. j \in 1 .. Len(a) /\ \A k \in 1 .. Len(a) : k # j => a[k] = b[k]
        BY <1>1, <2>2
    <2>4. PICK h : h = j - 1
        OBVIOUS
    <2>5. /\ h \in 0 .. Len(a) /\ j \in h .. Len(a) /\ j \in h .. Len(b) /\ Len(a) - j = Len(b) - j
          /\ \A k \in 1 .. h : a[k] = b[k]
          /\ \A k \in 1 .. Len(a) - j : a[j + k] = b[j + k]
        BY <1>1, <2>3, <2>4
    <2>6. Entry(a, b, j, j) <= Entry(a, b, h, h) + 1
        BY <1>1, <2>3, <2>4, EditsCost
    <2> HIDE DEF T
    <2> QED BY <1>1, <2>5, <2>6, OneDetourCostsOne
<1> QED BY <1>3, <1>4

LEMMA SwappedLetters ==
    ASSUME NEW S, NEW a \in Seq(S), NEW b \in Seq(S), NEW i \in 1 .. Len(a) - 1,
           Len(b) = Len(a), b[i] = a[i + 1], b[i + 1] = a[i],
           \A k \in 1 .. Len(a) : k # i /\ k # i + 1 => b[k] = a[k]
    PROVE  Distance(a, b) <= 1
<1>1. Len(a) \in Nat /\ i \in Nat
    BY LenProperties
<1>2. i <= Len(a) - 1 /\ i >= 1
    BY <1>1
<1>3. PICK h, j : h = i - 1 /\ j = i + 1
    OBVIOUS
<1>4. /\ h \in 0 .. Len(a) /\ j \in h .. Len(a) /\ j \in h .. Len(b) /\ Len(a) - j = Len(b) - j
      /\ \A k \in 1 .. h : a[k] = b[k]
      /\ \A k \in 1 .. Len(a) - j : a[j + k] = b[j + k]
    BY <1>1, <1>2, <1>3
<1>5. Swapped(a, b, j, j)
    BY <1>1, <1>2, <1>3 DEF Swapped
<1>6. Entry(a, b, j, j) <= Entry(a, b, h, h) + 1
    <2>1. j - 2 = h /\ j \in 0 .. Len(a) /\ j \in 0 .. Len(b)
        BY <1>1, <1>2, <1>3
    <2>2. Entry(a, b, j, j) <= Entry(a, b, j - 2, j - 2) + 1
        BY <1>1, <1>5, <2>1, EditsCost
    <2> QED BY <2>1, <2>2
<1> QED BY <1>1, <1>4, <1>6, OneDetourCostsOne

(* One edit is at a distance of one at most, and no further apart in       *)
(* length.                                                                 *)
LEMMA OneEditCostsOne ==
    ASSUME NEW S, NEW w \in Seq(S), NEW k \in Seq(S), OneEdit(w, k)
    PROVE  Distance(w, k) \in 0 .. 1 /\ Len(w) - Len(k) \in -1 .. 1
<1>1. Len(w) \in Nat /\ Len(k) \in Nat /\ DOMAIN w = 1 .. Len(w) /\ DOMAIN k = 1 .. Len(k)
    BY LenProperties
<1>2. /\ Distance(w, k) \in Nat /\ Distance(w, k) = Distance(k, w)
      /\ Len(w) - Len(k) <= Distance(w, k) /\ Len(k) - Len(w) <= Distance(w, k)
    BY DistanceIsSound
<1>3. Distance(w, k) <= 1
    <2>1. ASSUME NEW i \in DOMAIN w, RemoveAt(w, i) = k PROVE Distance(w, k) <= 1
        BY <1>1, <2>1, LetterMore
    <2>2. ASSUME NEW i \in DOMAIN k, RemoveAt(k, i) = w PROVE Distance(w, k) <= 1
        BY <1>1, <1>2, <2>2, LetterMore
    <2>3. CASE Len(w) = Len(k) /\ Cardinality({i \in DOMAIN w : w[i] # k[i]}) <= 1
        BY <2>3, AnotherLetter
    <2>4. ASSUME NEW i \in 1 .. Len(w) - 1, k = [w EXCEPT ![i] = w[i + 1], ![i + 1] = w[i]]
          PROVE  Distance(w, k) <= 1
        <3>1. /\ Len(k) = Len(w) /\ k[i] = w[i + 1] /\ k[i + 1] = w[i]
              /\ \A n \in 1 .. Len(w) : n # i /\ n # i + 1 => k[n] = w[n]
            BY <1>1, <2>4
        <3> QED BY <3>1, SwappedLetters
    <2> QED BY <2>1, <2>2, <2>3, <2>4 DEF OneEdit
<1>4. PICK x, y, d : x = Len(w) /\ y = Len(k) /\ d = Distance(w, k)
    OBVIOUS
<1>5. x \in Nat /\ y \in Nat /\ d \in Nat /\ x - y <= d /\ y - x <= d /\ d <= 1
    BY <1>1, <1>2, <1>3, <1>4
<1> QED BY <1>4, <1>5

----------------------------------------------------------------------------
(* A query is resolved to a merchant of the index, or to none. *)

LEMMA IndexNamesKnown ==
    ASSUME NEW known \in SUBSET Merchant, NEW word \in DOMAIN Index(known)
    PROVE  /\ Index(known)[word] \in known /\ word \in DOMAIN Keys[Index(known)[word]]
           /\ Index(known)[word] \in Merchant /\ Index(known)[word] # NoMerchant /\ word \in Word
<1> DEFINE S == {m \in known : word \in DOMAIN Keys[m]}
<1>1. S # {}
    BY DEF Index
<1>2. IsFiniteSet(S) /\ S \in SUBSET Nat
    BY MerchantsAssumption, FS_Subset, ZenonT(60)
<1>3. PICK m \in S : \A n \in S : n <= m
    BY <1>1, <1>2, Greatest
<1>4. \E k \in known : /\ word \in DOMAIN Keys[k]
                       /\ \A n \in known : word \in DOMAIN Keys[n] => n <= k
    BY <1>3
<1>5. Index(known)[word] \in known /\ word \in DOMAIN Keys[Index(known)[word]]
    BY <1>4 DEF Index
<1> QED BY <1>5, MerchantsAssumption, ZenonT(60) DEF NoMerchant

LEMMA ImageIsFinite ==
    ASSUME NEW T, NEW f, IsFiniteSet(T)
    PROVE  IsFiniteSet({f[x] : x \in T})
<1> DEFINE g == [x \in T |-> f[x]]
           U == {f[x] : x \in T}
<1>1. g \in Surjection(T, U)
    BY DEF Surjection
<1> HIDE DEF g, U
<1>2. IsFiniteSet(U)
    BY <1>1, FS_Surjection
<1> QED BY <1>2 DEF U

LEMMA IndexIsFinite ==
    ASSUME NEW known \in SUBSET Merchant
    PROVE  IsFiniteSet(DOMAIN Index(known))
<1> DEFINE D == {DOMAIN Keys[m] : m \in known}
<1>1. IsFiniteSet(known)
    BY MerchantsAssumption, FS_Subset
<1>2. IsFiniteSet(D)
    <2> DEFINE f == [m \in known |-> DOMAIN Keys[m]]
    <2>1. D = {f[m] : m \in known}
        OBVIOUS
    <2> HIDE DEF f, D
    <2> QED BY <1>1, <2>1, ImageIsFinite
<1>3. \A T \in D : IsFiniteSet(T)
    BY MerchantsAssumption
<1>4. IsFiniteSet(UNION D)
    <2> HIDE DEF D
    <2> QED BY <1>2, <1>3, FS_UNION
<1> QED BY <1>4 DEF Index

LEMMA FirstKnownIsKnown ==
    ASSUME NEW words \in Seq(Word), NEW ix, \E i \in DOMAIN words : words[i] \in DOMAIN ix
    PROVE  words[FirstKnown(words, ix)] \in DOMAIN ix
<1> DEFINE S == {i \in DOMAIN words : words[i] \in DOMAIN ix}
<1>1. DOMAIN words = 1 .. Len(words) /\ Len(words) \in Nat
    BY LenProperties
<1>2. S \in SUBSET Nat /\ S # {}
    BY <1>1
<1>3. PICK i \in S : \A j \in S : i <= j
    BY <1>2, Least
<1>4. \A j \in 1 .. i - 1 : words[j] \notin DOMAIN ix
    BY <1>1, <1>3
<1> QED BY <1>3, <1>4 DEF FirstKnown

LEMMA ResolvesToKnown ==
    ASSUME NEW known \in SUBSET Merchant, NEW query, query.words \in Seq(Word)
    PROVE  Resolve(known, query) \subseteq known \cup {NoMerchant}
<1> DEFINE ix == Index(known)
           words == query.words
<1>1. \A word \in DOMAIN ix : ix[word] \in known
    BY IndexNamesKnown
<1>2. ASSUME \E i \in DOMAIN words : words[i] \in DOMAIN ix
      PROVE  words[FirstKnown(words, ix)] \in DOMAIN ix
    BY <1>2, FirstKnownIsKnown
<1>3. Fuzzy(words, ix) \subseteq known \cup {NoMerchant}
    <2> HIDE DEF ix, words
    <2> QED BY <1>1 DEF Fuzzy
<1> HIDE DEF ix
<1> QED BY <1>1, <1>2, <1>3 DEF Resolve, ix

(* Two words are some thousandths similar, and a key of four letters or    *)
(* more and its misspelling by three quarters at least.                    *)
LEMMA SimilarWords ==
    ASSUME NEW w \in Word, NEW k \in Word
    PROVE  /\ Similar(w, k) \in Nat
           /\ <<w, k>> \in Misspelled => Similar(w, k) >= 750 /\ Len(w) - Len(k) \in -3 .. 3
<1> DEFINE S == Range(w) \cup Range(k)
<1>1. w \in Seq(S) /\ k \in Seq(S)
    <2>1. w \in Seq(Range(w)) /\ k \in Seq(Range(k))
        BY MerchantsAssumption
    <2>2. \A T, U, s : s \in Seq(T) => s \in Seq(T \cup U) /\ s \in Seq(U \cup T)
        OBVIOUS
    <2> QED BY <2>1, <2>2
<1> HIDE DEF S
<1>2. PICK n, d : n = Longer(w, k) /\ d = Distance(w, k)
    OBVIOUS
<1>3. n \in Nat \ {0} /\ d \in 0 .. n
    <2>1. w # << >> /\ Len(w) \in Nat /\ Len(k) \in Nat
        BY <1>1, MerchantsAssumption, LenProperties
    <2>2. Len(w) # 0
        BY <1>1, <2>1, EmptySeq
    <2>3. n \in Nat \ {0}
        BY <1>2, <2>1, <2>2 DEF Longer
    <2> QED BY <1>1, <1>2, <2>3, DistanceIsSound
<1> DEFINE x == (n - d) * 1000
           q == x \div n
<1>4. Similar(w, k) = q
    BY <1>2 DEF Similar
<1>5. x \in Nat
    BY <1>3
<1>6. q \in Nat /\ n * q <= x /\ x < n * q + n
    <2> HIDE DEF x
    <2> QED BY <1>3, <1>5, SMT
<1> HIDE DEF q
<1>7. ASSUME <<w, k>> \in Misspelled PROVE q >= 750 /\ Len(w) - Len(k) \in -3 .. 3
    <2>1. Len(k) >= 4 /\ OneEdit(w, k)
        BY <1>7 DEF Misspelled
    <2>2. d \in 0 .. 1 /\ Len(w) - Len(k) \in -1 .. 1
        BY <1>1, <1>2, <2>1, OneEditCostsOne
    <2>3. n >= 4
        BY <1>1, <1>2, <2>1, LenProperties DEF Longer
    <2>4. x >= n * 750
        BY <1>3, <2>2, <2>3
    <2>5. ASSUME q < 750 PROVE FALSE
        <3>1. n * q <= n * 749
            BY <1>3, <1>6, <2>5, SMT
        <3> QED BY <1>3, <1>5, <1>6, <2>4, <3>1
    <2> QED BY <1>6, <2>2, <2>5
<1>8. PICK l : l = Similar(w, k)
    OBVIOUS
<1>9. l \in Nat
    BY <1>4, <1>6, <1>8
<1> QED BY <1>4, <1>7, <1>8, <1>9

LEMMA ScoreIsNumber ==
    ASSUME NEW w \in Word, NEW known \in SUBSET Merchant, NEW k \in DOMAIN Index(known)
    PROVE  /\ Score(w, k, Index(known)[k]) \in Nat
           /\ Keys[Index(known)[k]][k] = 1000 /\ <<w, k>> \in Misspelled
              => Score(w, k, Index(known)[k]) >= Threshold
<1> DEFINE m == Index(known)[k]
<1>1. m \in Merchant /\ k \in DOMAIN Keys[m] /\ k \in Word
    BY IndexNamesKnown
<1> HIDE DEF m
<1>2. PICK s, g : s = Similar(w, k) /\ g = Keys[m][k]
    OBVIOUS
<1>3. s \in Nat /\ (<<w, k>> \in Misspelled => s >= 750 /\ Len(w) - Len(k) \in -3 .. 3)
    BY <1>1, <1>2, SimilarWords
<1>4. g \in Nat
    <2>1. g \in Weight
        BY <1>1, <1>2, MerchantsAssumption
    <2> QED BY <2>1 DEF Weight
<1>5. (s * g) \div 1000 \in Nat
    <2>1. s * g \in Nat
        BY <1>3, <1>4
    <2>2. \A x \in Nat : x \div 1000 \in Nat
        OBVIOUS
    <2> QED BY <2>1, <2>2
<1>6. g = 1000 => (s * g) \div 1000 = s
    BY <1>3
<1>7. Score(w, k, m) = IF Len(w) - Len(k) \in -3 .. 3 THEN (s * g) \div 1000 ELSE 0
    <2>1. Similarity[w][k] = s
        BY <1>1, <1>2 DEF Similarity
    <2> QED BY <1>2, <2>1 DEF Score
<1> QED BY <1>2, <1>3, <1>5, <1>6, <1>7 DEF m, Threshold

(* The best of the pairs exists and is good enough if any pair is.         *)
LEMMA FuzzyFinds ==
    ASSUME NEW known \in SUBSET Merchant, NEW words \in Seq(Word),
           NEW w \in ToSet(words), NEW k \in DOMAIN Index(known),
           Score(w, k, Index(known)[k]) >= Threshold
    PROVE  NoMerchant \notin Fuzzy(words, Index(known))
<1> DEFINE ix == Index(known)
           typed == {words[i] : i \in DOMAIN words}
           pairs == typed \X DOMAIN ix
           score == [p \in pairs |-> Score(p[1], p[2], ix[p[2]])]
           S == {score[p] : p \in pairs}
           good == {p \in pairs : score[p] >= Threshold /\ \A q \in pairs : score[q] <= score[p]}
<1>1. IsFiniteSet(pairs)
    <2>1. IsFiniteSet(DOMAIN words)
        <3>1. DOMAIN words = 1 .. Len(words) /\ Len(words) \in Int /\ 1 \in Int
            BY LenProperties
        <3> QED BY <3>1, FS_Interval
    <2>2. IsFiniteSet(typed)
        BY <2>1, ImageIsFinite
    <2>3. IsFiniteSet(DOMAIN ix)
        BY IndexIsFinite
    <2> HIDE DEF ix, typed
    <2> QED BY <2>2, <2>3, FS_Product
<1>2. typed \subseteq Word /\ w \in typed
    BY LenProperties DEF ToSet
<1>3. \A v \in typed, l \in DOMAIN ix : Score(v, l, ix[l]) \in Nat
    BY <1>2, ScoreIsNumber
<1>4. \A v \in typed, l \in DOMAIN ix : <<v, l>> \in pairs /\ score[<<v, l>>] = Score(v, l, ix[l])
    OBVIOUS
<1>5. \A p \in pairs : score[p] \in Nat
    <2> HIDE DEF ix, typed, score
    <2> QED BY <1>3, <1>4
<1>6. IsFiniteSet(S)
    <2> HIDE DEF pairs, score
    <2> QED BY <1>1, ImageIsFinite
<1>7. <<w, k>> \in pairs /\ score[<<w, k>>] >= Threshold
    BY <1>2, <1>4
<1> HIDE DEF score, pairs
<1>8. PICK top \in S : \A n \in S : n <= top
    <2>1. S \in SUBSET Nat /\ S # {}
        BY <1>5, <1>7
    <2> HIDE DEF S
    <2> QED BY <1>6, <2>1, Greatest
<1>9. PICK p \in pairs : score[p] = top
    BY <1>8
<1>10. p \in good
    <2>1. \A q \in pairs : score[q] <= score[p]
        BY <1>8, <1>9
    <2>2. score[p] >= Threshold
        BY <1>5, <1>7, <2>1 DEF Threshold
    <2> QED BY <2>1, <2>2
<1>11. Fuzzy(words, ix) = {ix[q[2]] : q \in good}
    <2>1. Fuzzy(words, ix) = IF good = {} THEN {NoMerchant} ELSE {ix[q[2]] : q \in good}
        BY DEF Fuzzy, score, pairs
    <2> QED BY <1>10, <2>1
<1>12. \A q \in good : q[2] \in DOMAIN ix
    BY DEF pairs
<1>13. \A l \in DOMAIN ix : ix[l] # NoMerchant
    BY IndexNamesKnown
<1> HIDE DEF good, ix
<1> QED BY <1>11, <1>12, <1>13 DEF ix

(* A misspelled word of a query finds a merchant, however the query goes   *)
(* on and whatever else is in the index: resolve_merchant either has an    *)
(* exact hit or keeps the best of all pairs, which is no worse than that   *)
(* of the word and the key it is meant to be.                              *)
THEOREM MisspelledWordsResolve ==
    ASSUME NEW known \in SUBSET Merchant, NEW query, query.words \in Seq(Word),
           Misspells(query.words, known)
    PROVE  NoMerchant \notin Resolve(known, query)
<1> DEFINE ix == Index(known)
           words == query.words
<1> PICK w \in ToSet(words), k \in DOMAIN ix : Keys[ix[k]][k] = 1000 /\ <<w, k>> \in Misspelled
    BY SMTT(40) DEF Misspells
<1>1. \A word \in DOMAIN ix : ix[word] # NoMerchant
    BY IndexNamesKnown
<1>2. ASSUME \E i \in DOMAIN words : words[i] \in DOMAIN ix
      PROVE  words[FirstKnown(words, ix)] \in DOMAIN ix
    BY <1>2, FirstKnownIsKnown
<1>3. NoMerchant \notin Fuzzy(words, ix)
    <2>1. w \in Word
        BY LenProperties DEF ToSet
    <2>2. Score(w, k, ix[k]) >= Threshold
        BY <2>1, ScoreIsNumber
    <2> QED BY <2>2, FuzzyFinds
<1> HIDE DEF ix
<1> QED BY <1>1, <1>2, <1>3 DEF Resolve, ix

----------------------------------------------------------------------------
(* The blend. *)

(* A weight does not turn the order of two scores around. *)
LEMMA WeightedOrder ==
    ASSUME NEW w \in Nat, NEW x \in Int, NEW y \in Int, x >= y
    PROVE  w * x >= w * y /\ w * x \in Int /\ w * y \in Int
<1>1. w * (x - y) >= 0
    BY SMT
<1>2. w * (x - y) = w * x - w * y
    BY SMT
<1> QED BY <1>1, <1>2

(* Clamping does not, either. *)
LEMMA ClampOrder ==
    ASSUME NEW x \in Int, NEW y \in Int, NEW top \in Nat, x >= y
    PROVE  Clamp(x, top) >= Clamp(y, top)
BY DEF Clamp

(* The better document has the larger blend: rerank in search/ranking.py.  *)
LEMMA BlendOrder ==
    ASSUME NEW w, NEW a, NEW b, Numbers(w), Sane(w), Document(a), Document(b), Dominates(a, b)
    PROVE  Blend(w, a) >= Blend(w, b) /\ Blend(w, a) \in Int /\ Blend(w, b) \in Int
<1>1. \A f \in Factor :
        /\ w[f] * Scored(a, f) >= w[f] * Scored(b, f)
        /\ w[f] * Scored(a, f) \in Int /\ w[f] * Scored(b, f) \in Int
    <2> TAKE f \in Factor
    <2>1. w[f] \in Nat
        BY DEF Numbers, Sane, Factor, DefaultWeights
    <2>2. Scored(a, f) \in Int /\ Scored(b, f) \in Int /\ Scored(a, f) >= Scored(b, f)
        BY DEF Document, Dominates
    <2> QED BY <2>1, <2>2, WeightedOrder
<1>2. /\ Penalty(w, b) >= Penalty(w, a)
      /\ Penalty(w, a) \in Int /\ Penalty(w, b) \in Int
    <2>1. w.duplicate_penalty \in Nat
        BY DEF Numbers, Sane, DefaultWeights
    <2>2. Duplicate(a) \in Int /\ Duplicate(b) \in Int /\ Duplicate(b) >= Duplicate(a)
        BY DEF Document, Dominates
    <2> QED BY <2>1, <2>2, WeightedOrder DEF Penalty
<1> QED BY <1>1, <1>2 DEF Blend, Factor, DefaultWeights

LEMMA ScoreIsANumber ==
    ASSUME NEW w, NEW doc, Numbers(w), Document(doc)
    PROVE  FinalScore(w, doc) \in Int
<1>1. \A f \in Factor : w[f] * Scored(doc, f) \in Int
    BY DEF Numbers, Document, Factor, DefaultWeights
<1>2. Penalty(w, doc) \in Int
    BY DEF Numbers, Document, Penalty, DefaultWeights
<1>3. Blend(w, doc) \in Int
    BY <1>1, <1>2 DEF Blend, Factor, DefaultWeights
<1>4. Positive(w) \in Int
    BY DEF Numbers, Positive, DefaultWeights
<1> QED BY <1>3, <1>4 DEF FinalScore, Clamp

(* Dominance: with weights that are not negative, a document that is at    *)
(* least as good as another one in every factor, and no more of a          *)
(* duplicate, is never ranked below it for its score.  rerank in           *)
(* search/ranking.py sorts by this score.                                  *)
THEOREM Dominance ==
    ASSUME NEW w, NEW a, NEW b, Numbers(w), Sane(w), Document(a), Document(b), Dominates(a, b)
    PROVE  FinalScore(w, a) >= FinalScore(w, b)
<1>1. Blend(w, a) >= Blend(w, b) /\ Blend(w, a) \in Int /\ Blend(w, b) \in Int
    BY BlendOrder
<1>2. Positive(w) \in Nat
    BY DEF Numbers, Sane, Positive, DefaultWeights
<1>3. CASE Positive(w) = 0
    BY <1>1, <1>3, ClampOrder DEF FinalScore
<1>4. CASE Positive(w) > 0
    <2>1. 1000 * Positive(w) \in Nat
        BY <1>2
    <2> QED BY <1>1, <1>2, <1>4, <2>1, ClampOrder DEF FinalScore
<1> QED BY <1>2, <1>3, <1>4
=============================================================================
