----------------------------- MODULE AcpiProofs -----------------------------
(***************************************************************************)
(* Proofs about Acpi, for any tables and any widths of bytes and lengths.  *)
(***************************************************************************)
EXTENDS Acpi, WellFoundedInduction, TLAPS

-----------------------------------------------------------------------------
(* Sums.                                                                   *)

\* Induction, for the numbers in a set.
LEMMA NatSetInduction ==
  ASSUME NEW S \in SUBSET Nat, 0 \in S, \A n \in S : n + 1 \in S
  PROVE  \A n \in Nat : n \in S
PROOF
  <1> DEFINE R == {p \in Nat \X Nat : p[1] < p[2]}
             T == Nat \ S
  <1>1. IsWellFoundedOn(R, Nat)
    <2>1. R = OpToRel(<, Nat) BY DEF OpToRel
    <2> QED BY <2>1, NatLessThanWellFounded
  <1> SUFFICES ASSUME T # {} PROVE FALSE OBVIOUS
  <1>2. T \subseteq Nat OBVIOUS
  <1> HIDE DEF R
  <1>3. PICK x \in T : \A y \in T : ~ (<<y, x>> \in R) BY <1>1, <1>2, WFMin
  <1>4. x \in Nat /\ x # 0 /\ x - 1 \in Nat OBVIOUS
  <1>5. <<x - 1, x>> \in R BY <1>4 DEF R
  <1>6. x - 1 \in S BY <1>3, <1>4, <1>5
  <1> QED BY <1>4, <1>6

\* Quotient and remainder are unique.
LEMMA Remainder ==
  ASSUME NEW M \in Nat \ {0}, NEW q \in Int, NEW r \in 0 .. M - 1
  PROVE  (M * q + r) % M = r
PROOF
  <1> DEFINE x == M * q + r  d == x \div M  e == x % M
  <1>1. x \in Int /\ d \in Int /\ e \in 0 .. M - 1 /\ x = M * d + e OBVIOUS
  <1>2. \A n \in Int : n >= 1 => M * n >= M OBVIOUS
  <1> HIDE DEF d, e
  <1>3. M * (d - q) = r - e BY <1>1
  <1>4. M * (q - d) = e - r BY <1>1
  <1>5. ~(d - q >= 1) BY <1>1, <1>2, <1>3
  <1>6. ~(q - d >= 1) BY <1>1, <1>2, <1>4
  <1>7. d = q BY <1>1, <1>5, <1>6
  <1>8. e = r BY <1>1, <1>7
  <1> QED BY <1>8 DEF e

\* A sum that is taken modulo M at every step is that of all, modulo M.
LEMMA ModuloOfSum ==
  ASSUME NEW M \in Nat \ {0}, NEW a \in Nat, NEW b \in Nat
  PROVE  ((a % M) + b) % M = (a + b) % M
PROOF
  <1> DEFINE q == a \div M  r == a % M  p == (r + b) \div M  t == (r + b) % M
  <1>1. q \in Int /\ r \in 0 .. M - 1 /\ a = M * q + r OBVIOUS
  <1>2. p \in Int /\ t \in 0 .. M - 1 /\ r + b = M * p + t BY <1>1
  <1> HIDE DEF q, r, p, t
  <1>3. a + b = M * (q + p) + t BY <1>1, <1>2
  <1>6. q + p \in Int BY <1>1, <1>2
  <1>4. (M * (q + p) + t) % M = t BY <1>2, <1>6, Remainder
  <1>5. (a + b) % M = t BY <1>3, <1>4
  <1> QED BY <1>5 DEF t, r

\* The sums of a sequence of bytes are what their definition says.
LEMMA SumsOfBytes ==
  ASSUME NEW bytes \in Seq(Byte)
  PROVE  /\ Sums(bytes) \in [0 .. Len(bytes) -> Nat]
         /\ Sums(bytes)[0] = 0
         /\ \A n \in 1 .. Len(bytes) : Sums(bytes)[n] = Sums(bytes)[n - 1] + bytes[n]
PROOF
  <1> DEFINE N == Len(bytes)
             Adds(f, n) == /\ f \in [0 .. n -> Nat] /\ f[0] = 0
                           /\ \A k \in 1 .. n : f[k] = f[k - 1] + bytes[k]
             S == {n \in Nat : n <= N => \E f : Adds(f, n)}
  <1>1. N \in Nat /\ \A k \in 1 .. N : bytes[k] \in Nat
    <2>1. Byte \subseteq Nat BY SizesAssumption DEF Byte
    <2>2. N \in Nat OBVIOUS
    <2>3. \A k \in 1 .. N : bytes[k] \in Byte OBVIOUS
    <2> QED BY <2>1, <2>2, <2>3
  <1>2. 0 \in S
    <2>1. Adds([k \in 0 .. 0 |-> 0], 0) OBVIOUS
    <2> QED BY <2>1
  <1>3. ASSUME NEW n \in S PROVE n + 1 \in S
    <2> SUFFICES ASSUME n + 1 <= N PROVE \E f : Adds(f, n + 1) OBVIOUS
    <2>1. n \in Nat /\ n <= N BY <1>1
    <2>2. PICK f : Adds(f, n) BY <2>1
    <2> DEFINE g == [k \in 0 .. n + 1 |-> IF k <= n THEN f[k] ELSE f[n] + bytes[n + 1]]
    <2>3. g \in [0 .. n + 1 -> Nat] BY <1>1, <2>1, <2>2
    <2>4. g[0] = 0 BY <2>1, <2>2
    <2>5. ASSUME NEW k \in 1 .. n + 1 PROVE g[k] = g[k - 1] + bytes[k]
      <3>1. CASE k <= n BY <2>1, <2>2, <3>1
      <3>2. CASE k = n + 1 BY <2>1, <2>2, <3>2
      <3> QED BY <2>1, <3>1, <3>2
    <2> QED BY <2>3, <2>4, <2>5
  <1>4. N \in S
    <2> HIDE DEF S
    <2> QED BY <1>1, <1>2, <1>3, NatSetInduction DEF S
  <1>5. PICK f : Adds(f, N) BY <1>1, <1>4
  <1> DEFINE Rule(g) == [n \in 0 .. N |-> IF n = 0 THEN 0 ELSE g[n - 1] + bytes[n]]
  <1>6. f = Rule(f) BY <1>1, <1>5
  <1>7. Sums(bytes) = CHOOSE g : g = Rule(g) BY DEF Sums
  <1> DEFINE s == Sums(bytes)
  <1>8. s = Rule(s) BY <1>6, <1>7
  <1> HIDE DEF s
  <1>9. ASSUME NEW n \in 1 .. N PROVE s[n] = s[n - 1] + bytes[n] BY <1>1, <1>8, <1>9
  <1>10. s[0] = 0 BY <1>1, <1>8
  <1>11. s = f
    <2> DEFINE Same == {n \in Nat : n <= N => s[n] = f[n]}
    <2>1. 0 \in Same BY <1>5, <1>10
    <2>2. ASSUME NEW n \in Same PROVE n + 1 \in Same
      <3> SUFFICES ASSUME n + 1 <= N PROVE s[n + 1] = f[n + 1] OBVIOUS
      <3>1. s[n] = f[n] /\ n + 1 \in 1 .. N BY <1>1
      <3> QED BY <1>5, <1>9, <3>1
    <2>3. \A n \in Nat : n \in Same
      <3> HIDE DEF Same
      <3> QED BY <2>1, <2>2, NatSetInduction DEF Same
    <2>4. \A n \in 0 .. N : s[n] = f[n] BY <1>1, <2>3
    <2>5. DOMAIN s = 0 .. N /\ s = [n \in DOMAIN s |-> s[n]] BY <1>8
    <2> QED BY <1>5, <2>4, <2>5
  <1> QED BY <1>5, <1>9, <1>10, <1>11 DEF s

-----------------------------------------------------------------------------
\* Up to the search there is no FADT, after it there is something that is taken
\* for it, and what was passed over in an RSDT is none.
SearchInv ==
  /\ pc \in {"start", "locate", "not_found"} => fadt = NULL
  /\ pc = "start" => i = 0 /\ rsdt_entries = 0
  /\ pc = "locate" => \A k \in FadtEntries(rsdt) : k > i
  /\ WellFormed(rsdt) /\ pc # "start" => rsdt_entries = Len(rsdt.tables)
  /\ pc = "not_found" => (WellFormed(rsdt) => FadtEntries(rsdt) = {})
  /\ pc \in {"sum", "done", "invalid"} /\ WellFormed(rsdt) =>
       IF fadt = NULL THEN ZeroFirst ELSE FirstFadt

\* The sum is that of the bytes passed, and the machine goes on or stops as it
\* says.
SumInv ==
  /\ pc \in {"start", "locate"} => sum = 0
  /\ pc \in {"sum", "done"} =>
       strncmp(fadt) /\ sum = Sums(Pointee(fadt).bytes)[i] % ByteMod
  /\ pc = "done" => i = Len(Pointee(fadt).bytes) /\ sum = 0
  /\ pc = "invalid" => ~ChecksumOK(Pointee(fadt))

\* The inductive invariant.
IInv == TypeOK /\ SearchInv /\ SumInv

\* What an RSDT consists of.
LEMMA RsdtParts ==
  ASSUME TypeOK
  PROVE  /\ rsdt.bytes \in Seq(Byte) /\ rsdt.tables \in Seq(Table \cup {NULL})
         /\ Len(rsdt.bytes) \in Nat /\ Len(rsdt.tables) \in Nat
         /\ \A k \in 1 .. Len(rsdt.tables) : rsdt.tables[k] \in Table \cup {NULL}
         /\ fadt \in Table \cup {NULL} /\ Pointee(fadt) \in Table
         /\ \A t \in Table : Len(t.bytes) \in Nat
                             /\ \A k \in 1 .. Len(t.bytes) : t.bytes[k] \in Byte
PROOF
  <1>1. rsdt \in Rsdt BY TablesAssumption DEF TypeOK
  <1>2. rsdt.bytes \in Seq(Byte) /\ rsdt.tables \in Seq(Table \cup {NULL})
    BY <1>1 DEF Rsdt
  <1>3. \A k \in 1 .. Len(rsdt.tables) : rsdt.tables[k] \in Table \cup {NULL} BY <1>2
  <1>4. ASSUME NEW t \in Table
        PROVE  Len(t.bytes) \in Nat /\ \A k \in 1 .. Len(t.bytes) : t.bytes[k] \in Byte
    <2>1. t.bytes \in Seq(Byte) BY DEF Table
    <2> QED BY <2>1
  <1>5. fadt \in Table \cup {NULL} BY <1>3, TablesAssumption DEF TypeOK
  <1>6. Pointee(fadt) \in Table BY <1>5, TablesAssumption DEF TypeOK, Pointee
  <1> QED BY <1>2, <1>3, <1>4, <1>5, <1>6

\* The number of entries is that of the tables.
LEMMA EntriesCounted ==
  ASSUME TypeOK
  PROVE  /\ EntryCount \in 0 .. WordMod
         /\ WellFormed(rsdt) => EntryCount = Len(rsdt.tables)
PROOF
  <1> DEFINE d == Len(rsdt.bytes) - HeaderSize  r == d % WordMod
  <1>1. d \in Int /\ WordMod \in Nat /\ WordMod > 0
    BY RsdtParts, SizesAssumption
  <1>2. r \in Nat /\ r < WordMod BY <1>1
  <1>3. r \div 4 \in Nat /\ 4 * (r \div 4) <= r BY <1>2
  <1>4. d >= 0 => r = d
    <2>1. d < WordMod BY RsdtParts, SizesAssumption, LengthsAssumption DEF TypeOK
    <2> HIDE DEF d
    <2> QED BY <1>1, <2>1
  <1>5. WellFormed(rsdt) => d = 4 * Len(rsdt.tables)
    BY RsdtParts, SizesAssumption DEF WellFormed
  <1>6. EntryCount = r \div 4 /\ r < WordMod BY <1>2 DEF EntryCount
  <1>7. Len(rsdt.tables) \in Nat BY RsdtParts
  <1> HIDE DEF d, r
  <1> QED BY <1>1, <1>2, <1>3, <1>4, <1>5, <1>6, <1>7

LEMMA InitEstablishes == Init => IInv
PROOF
  <1> SUFFICES ASSUME Init PROVE IInv OBVIOUS
  <1>1. TypeOK
    BY SizesAssumption DEF Init, TypeOK, Byte
  <1>2. \A k \in FadtEntries(rsdt) : k > 0
    BY <1>1, RsdtParts DEF FadtEntries
  <1> QED BY <1>1, <1>2, RsdtParts DEF Init, IInv, SearchInv, SumInv

LEMMA StepPreserves == IInv /\ [Next]_vars => IInv'
PROOF
  <1> SUFFICES ASSUME IInv, [Next]_vars PROVE IInv' OBVIOUS
  <1>0. TypeOK /\ SearchInv /\ SumInv BY DEF IInv
  <1>1. CASE CountEntries
    <2>1. /\ pc = "start" /\ pc' = "locate" /\ rsdt_entries' = EntryCount
          /\ UNCHANGED <<low, rsdt, fadt, i, sum>>
      BY <1>1 DEF CountEntries
    <2>2. i = 0 /\ fadt = NULL BY <1>0, <2>1 DEF SearchInv
    <2>3. TypeOK' BY <1>0, <2>1, <2>2, EntriesCounted DEF TypeOK
    <2>4. \A k \in FadtEntries(rsdt) : k > 0
      BY <1>0, RsdtParts DEF FadtEntries
    <2>5. SearchInv'
      BY <1>0, <2>1, <2>2, <2>4, EntriesCounted DEF SearchInv, WellFormed, FadtEntries, ZeroEntries
    <2>6. SumInv' BY <1>0, <2>1, <2>2 DEF SumInv
    <2> QED BY <2>3, <2>5, <2>6 DEF IInv
  <1>2. CASE LocateNext
    <2>1. /\ pc = "locate" /\ i < rsdt_entries /\ i' = i + 1
          /\ UNCHANGED <<pc, low, rsdt, rsdt_entries, fadt, sum>>
      BY <1>2 DEF LocateNext, Succ
    <2>2. fadt = NULL /\ i \in 0 .. rsdt_entries /\ rsdt_entries \in Nat
      BY <1>0, <2>1 DEF SearchInv, TypeOK
    <2>3. TypeOK' BY <1>0, <2>1, <2>2 DEF TypeOK
    <2>4. \A k \in FadtEntries(rsdt) : k > i + 1
      <3> SUFFICES ASSUME NEW k \in FadtEntries(rsdt), k = i + 1 PROVE FALSE
        BY <1>0, <2>1, <2>2, RsdtParts DEF SearchInv, FadtEntries
      <3>1. i < Len(rsdt.tables) /\ rsdt.tables[i + 1].facp
        BY <1>0, <2>2, RsdtParts DEF FadtEntries
      <3>2. Entries(i) = {rsdt.tables[i + 1]} BY <3>1 DEF Entries
      <3> QED BY <1>2, <3>1, <3>2 DEF LocateNext, strncmp
    <2>5. SearchInv'
      BY <1>0, <2>1, <2>2, <2>4 DEF SearchInv, WellFormed, FadtEntries, ZeroEntries
    <2>6. SumInv' BY <1>0, <2>1 DEF SumInv
    <2> QED BY <2>3, <2>5, <2>6 DEF IInv
  <1>3. CASE LocateFound
    <2>1. /\ pc = "locate" /\ i < rsdt_entries /\ i' = 0 /\ pc' = "sum"
          /\ UNCHANGED <<low, rsdt, rsdt_entries, sum>>
          /\ fadt' \in Entries(i) /\ strncmp(fadt')
      BY <1>3 DEF LocateFound
    <2>2. i \in Nat /\ rsdt_entries \in Nat BY <1>0, <2>1 DEF SearchInv, TypeOK
    <2>3. \/ i < Len(rsdt.tables) /\ fadt' = rsdt.tables[i + 1]
          \/ ~(i < Len(rsdt.tables)) /\ fadt' \in Tables \cup {NULL}
      BY <2>1 DEF Entries
    <2>4. /\ fadt' \in Table \cup {NULL}
          /\ fadt' \in Tables \cup {NULL} \cup {rsdt.tables[k] : k \in 1 .. Len(rsdt.tables)}
      BY <1>0, <2>2, <2>3, RsdtParts, TablesAssumption
    <2>5. Pointee(fadt)' \in Table
      BY <1>0, <2>1, <2>4, TablesAssumption DEF TypeOK, Pointee
    <2>6. TypeOK'
      <3>1. Len(Pointee(fadt)'.bytes) \in Nat BY <1>0, <2>5, RsdtParts
      <3> QED BY <1>0, <2>1, <2>4, <3>1 DEF TypeOK
    <2>7. WellFormed(rsdt) => IF fadt' = NULL THEN ZeroFirst' ELSE FirstFadt'
      <3> SUFFICES ASSUME WellFormed(rsdt)
                   PROVE  IF fadt' = NULL THEN ZeroFirst' ELSE FirstFadt'
        OBVIOUS
      <3>1. i + 1 \in 1 .. Len(rsdt.tables) /\ fadt' = rsdt.tables[i + 1]
        BY <1>0, <2>1, <2>2, <2>3, RsdtParts DEF SearchInv
      <3>2. \A j \in FadtEntries(rsdt) : i + 1 <= j
        BY <1>0, <2>1, <2>2, RsdtParts DEF SearchInv, FadtEntries
      <3>3. CASE fadt' = NULL
        <4>1. i + 1 \in ZeroEntries(rsdt) BY <3>1, <3>3 DEF ZeroEntries
        <4>2. \A j \in FadtEntries(rsdt) : i + 1 # j BY <4>1 DEF FadtEntries
        <4>3. \A j \in FadtEntries(rsdt) : i + 1 < j
          BY <1>0, <2>2, <3>2, <4>2, RsdtParts DEF FadtEntries
        <4>4. ZeroFirst BY <4>1, <4>3 DEF ZeroFirst
        <4>5. ZeroFirst' BY <2>1, <4>4 DEF ZeroFirst, ZeroEntries, FadtEntries
        <4> QED BY <3>3, <4>5
      <3>4. CASE fadt' # NULL
        <4>1. i + 1 \in FadtEntries(rsdt)
          BY <2>1, <3>1, <3>4 DEF FadtEntries, ZeroEntries, strncmp
        <4>2. \E k \in FadtEntries(rsdt) :
                fadt' = rsdt.tables[k] /\ \A j \in FadtEntries(rsdt) : k <= j
          BY <3>1, <3>2, <4>1
        <4>3. FirstFadt' BY <2>1, <4>2 DEF FirstFadt, FadtEntries, ZeroEntries
        <4> QED BY <3>4, <4>3
      <3> QED BY <3>3, <3>4
    <2>8. SearchInv'
      BY <1>0, <2>1, <2>7 DEF SearchInv, WellFormed
    <2>9. SumInv'
      <3>1. sum' = 0 /\ strncmp(fadt') BY <1>0, <2>1 DEF SumInv
      <3>2. Sums(Pointee(fadt)'.bytes)[0] = 0 BY <2>5, SumsOfBytes DEF Table
      <3>3. 0 % ByteMod = 0 BY SizesAssumption
      <3> QED BY <2>1, <3>1, <3>2, <3>3 DEF SumInv
    <2> QED BY <2>6, <2>8, <2>9 DEF IInv
  <1>4. CASE LocateFailed
    <2>1. /\ pc = "locate" /\ i >= rsdt_entries /\ pc' = "not_found"
          /\ UNCHANGED <<low, rsdt, rsdt_entries, fadt, i, sum>>
      BY <1>4 DEF LocateFailed
    <2>2. fadt = NULL BY <1>0, <2>1 DEF SearchInv
    <2>3. TypeOK' BY <1>0, <2>1, <2>2 DEF TypeOK
    <2>4. WellFormed(rsdt) => FadtEntries(rsdt) = {}
      <3> SUFFICES ASSUME WellFormed(rsdt), NEW k \in FadtEntries(rsdt) PROVE FALSE OBVIOUS
      <3>1. k > i /\ rsdt_entries = Len(rsdt.tables) /\ i \in Nat
        BY <1>0, <2>1, RsdtParts DEF SearchInv, TypeOK
      <3>2. k \in 1 .. Len(rsdt.tables) BY DEF FadtEntries
      <3> QED BY <1>0, <2>1, <3>1, <3>2, RsdtParts
    <2>5. SearchInv'
      BY <1>0, <2>1, <2>2, <2>4 DEF SearchInv, WellFormed, FadtEntries, ZeroEntries
    <2>6. SumInv' BY <2>1, <2>2 DEF SumInv
    <2> QED BY <2>3, <2>5, <2>6 DEF IInv
  <1>5. CASE SumByte
    <2> DEFINE t == Pointee(fadt)
    <2>1. /\ pc = "sum" /\ i < Len(t.bytes) /\ i' = i + 1
          /\ sum' = (sum + t.bytes[i + 1]) % ByteMod
          /\ UNCHANGED <<pc, low, rsdt, rsdt_entries, fadt>>
      BY <1>5 DEF SumByte, Succ, Added
    <2>2. t \in Table /\ t' = t BY <1>0, <2>1, RsdtParts DEF Pointee
    <2> HIDE DEF t
    <2>3. i \in 0 .. Len(t.bytes) /\ Len(t.bytes) \in Nat
      BY <1>0, <2>1, <2>2, RsdtParts DEF TypeOK, t
    <2>4. t.bytes[i + 1] \in Byte /\ sum \in Byte
      BY <1>0, <2>1, <2>2, <2>3, RsdtParts DEF TypeOK
    <2>5. sum' \in Byte
      BY <2>1, <2>4, SizesAssumption DEF Byte
    <2>6. TypeOK'
      <3>1. i' \in 0 .. Len(t'.bytes) BY <2>1, <2>2, <2>3
      <3> QED BY <1>0, <2>1, <2>5, <3>1 DEF TypeOK, t
    <2>7. SearchInv'
      BY <1>0, <2>1 DEF SearchInv, WellFormed, FirstFadt, ZeroFirst, FadtEntries, ZeroEntries
    <2>8. SumInv'
      <3> DEFINE S == Sums(t.bytes)
      <3>1. t.bytes \in Seq(Byte) BY <2>2 DEF Table
      <3>8. /\ S \in [0 .. Len(t.bytes) -> Nat]
            /\ \A n \in 1 .. Len(t.bytes) : S[n] = S[n - 1] + t.bytes[n]
        BY <3>1, SumsOfBytes
      <3>9. i + 1 \in 1 .. Len(t.bytes) /\ i + 1 - 1 = i BY <2>1, <2>3
      <3>2. S[i + 1] = S[i] + t.bytes[i + 1] /\ S[i] \in Nat
        <4> HIDE DEF S
        <4> QED BY <2>3, <3>8, <3>9
      <3>3. sum = S[i] % ByteMod /\ strncmp(fadt) BY <1>0, <2>1 DEF SumInv, t
      <3>4. t.bytes[i + 1] \in Nat BY <2>4, SizesAssumption DEF Byte
      <3> HIDE DEF S
      <3>5. ASSUME NEW a \in Nat, NEW b \in Nat
            PROVE  ((a % ByteMod) + b) % ByteMod = (a + b) % ByteMod
        BY SizesAssumption, ModuloOfSum
      <3>6. sum' = S[i + 1] % ByteMod BY <2>1, <3>2, <3>3, <3>4, <3>5
      <3>7. sum' = Sums(t'.bytes)[i'] % ByteMod BY <2>1, <2>2, <3>6 DEF S
      <3> QED BY <2>1, <3>3, <3>7 DEF SumInv, t, strncmp
    <2> QED BY <2>6, <2>7, <2>8 DEF IInv
  <1>6. CASE SumDone
    <2>1. /\ pc = "sum" /\ i = Len(Pointee(fadt).bytes)
          /\ pc' = IF sum = 0 THEN "done" ELSE "invalid"
          /\ UNCHANGED <<low, rsdt, rsdt_entries, fadt, i, sum>>
      BY <1>6 DEF SumDone
    <2>2. Pointee(fadt)' = Pointee(fadt) BY <2>1 DEF Pointee
    <2>3. TypeOK' BY <1>0, <2>1, <2>2 DEF TypeOK
    <2>4. SearchInv'
      BY <1>0, <2>1 DEF SearchInv, WellFormed, FirstFadt, ZeroFirst, FadtEntries, ZeroEntries
    <2>5. SumInv' BY <1>0, <2>1, <2>2 DEF SumInv, ChecksumOK, strncmp
    <2> QED BY <2>3, <2>4, <2>5 DEF IInv
  <1>7. CASE Stop \/ UNCHANGED vars
    <2>1. UNCHANGED vars BY <1>7 DEF Stop
    <2> QED BY <1>0, <2>1 DEF IInv, TypeOK, SearchInv, SumInv, WellFormed, FadtEntries,
                              ZeroEntries, FirstFadt, ZeroFirst, ChecksumOK, Pointee, strncmp,
                              vars
  <1> QED BY <1>1, <1>2, <1>3, <1>4, <1>5, <1>6, <1>7 DEF Next

LEMMA Invariance == Spec => []IInv
PROOF BY InitEstablishes, StepPreserves, PTL DEF Spec

\* The sum stays a byte and the loops stay inside the tables they read, also
\* on an RSDT that is not well formed.
THEOREM TypeCorrect == Spec => []TypeOK
PROOF
  <1>1. IInv => TypeOK BY DEF IInv
  <1> QED BY <1>1, Invariance, PTL

\* Whatever the RSDT holds, acpi_init goes on only with a FADT whose bytes add up
\* to 0, and which has the signature unless a zero entry named it: is_fadt_valid
\* sums all of the table that locate_fadt has found.
THEOREM FadtIsValid == Spec => []AcceptedFadtIsValid
PROOF
  <1>1. IInv => AcceptedFadtIsValid
    <2> SUFFICES ASSUME IInv, pc = "done"
                 PROVE  (fadt = NULL \/ fadt.facp) /\ ChecksumOK(Pointee(fadt))
      BY DEF AcceptedFadtIsValid
    <2>1. strncmp(fadt) /\ Sums(Pointee(fadt).bytes)[Len(Pointee(fadt).bytes)] % ByteMod = 0
      BY DEF IInv, SumInv
    <2> QED BY <2>1 DEF strncmp, ChecksumOK
  <1> QED BY <1>1, Invariance, PTL

\* On an RSDT of proper length the FADT taken is its first one, unless a zero
\* entry lies before it, and the machine stops only if there is none or the bytes
\* do not add up to 0.
THEOREM OutcomeIsRight == Spec => []WellFormedOutcome
PROOF
  <1>1. IInv => WellFormedOutcome
    BY DEF IInv, SearchInv, SumInv, WellFormedOutcome
  <1> QED BY <1>1, Invariance, PTL

=============================================================================
