--------------------------- MODULE BookingsProofs ---------------------------
(***************************************************************************)
(* The abstract booking calendar never promises a garment twice, for any   *)
(* garments, orders, lines and turnaround buffer.                          *)
(***************************************************************************)
EXTENDS Bookings, TLAPS

(* A line that no existing line excludes clashes with none of them, in     *)
(* either direction: the availability check of service.ts is enough.       *)
LEMMA NotExcludedNoClash ==
  ASSUME NEW k \in LineType, NEW l \in LineType, NEW t \in Nat, ~ Excludes(k, l, t)
  PROVE  ~ Clash(k, l, t) /\ ~ Clash(l, k, t)
BY BufferAssumption DEF Excludes, Clash, LineType, BufferedEnd

(* Two lines that do not clash today do not clash tomorrow.                *)
LEMMA ClashFades ==
  ASSUME NEW k \in LineType, NEW l \in LineType, NEW t \in Nat, ~ Clash(k, l, t)
  PROVE  ~ Clash(k, l, t + 1)
BY BufferAssumption DEF Clash, LineType, BufferedEnd

LEMMA BookingLines ==
  ASSUME NEW b \in Booking
  PROVE  b.line \in LineType /\ b.unit \in Units
BY LinesAssumption DEF Booking

BInv == BTypeOK /\ NoDoubleBooking

LEMMA BInitInv == BInit => BInv
BY DEF BInit, BInv, BTypeOK, NoDoubleBooking, NoClash, OncePerUnit

LEMMA BNextInv == BInv /\ [BNext]_bvars => BInv'
<1> SUFFICES ASSUME BInv, [BNext]_bvars PROVE BInv'
  OBVIOUS
<1> USE DEF BInv, BTypeOK, NoDoubleBooking, NoClash
<1>1. ASSUME NEW o \in Orders, NEW D \in SUBSET (Orders \ {o}), Book(o, D)
      PROVE  BInv'
  <2>1. BTypeOK'
    BY <1>1 DEF Book
  <2>2. \A p \in Orders : p # o => held'[p] \subseteq held[p]
    BY <1>1 DEF Book
  <2>3. ASSUME NEW p \in Orders PROVE OncePerUnit(held'[p])
    BY <1>1, <2>2 DEF Book, OncePerUnit
  <2>4. ASSUME NEW p \in Orders, p # o, NEW b \in held'[o], NEW c \in held'[p], b.unit = c.unit
        PROVE  ~ Clash(b.line, c.line, now) /\ ~ Clash(c.line, b.line, now)
    <3>1. p \in Orders \ (D \cup {o}) /\ c \in held[p]
      BY <1>1, <2>2, <2>4 DEF Book
    <3>2. ~ Excludes(c.line, b.line, now)
      BY <1>1, <2>4, <3>1 DEF Book, FreeOf
    <3>3. b \in Booking /\ c \in Booking
      BY <2>1, <2>4
    <3>4. QED
      BY <3>2, <3>3, NotExcludedNoClash, BookingLines
  <2>5. ASSUME NEW p \in Orders, NEW q \in Orders, p # q,
               NEW b \in held'[p], NEW c \in held'[q], b.unit = c.unit
        PROVE  ~ Clash(b.line, c.line, now)
    <3>1. CASE p = o
      BY <2>4, <2>5, <3>1
    <3>2. CASE q = o
      BY <2>4, <2>5, <3>2
    <3>3. CASE p # o /\ q # o
      BY <2>2, <2>5, <3>3
    <3>4. QED
      BY <3>1, <3>2, <3>3
  <2>6. now' = now
    BY <1>1 DEF Book
  <2>7. QED
    BY <2>1, <2>3, <2>5, <2>6
<1>2. ASSUME NEW o \in Orders, Release(o)
      PROVE  BInv'
  <2>1. \A p \in Orders : held'[p] \subseteq held[p]
    BY <1>2 DEF Release
  <2>2. now' = now /\ BTypeOK'
    BY <1>2 DEF Release
  <2>3. \A p \in Orders : OncePerUnit(held'[p])
    BY <2>1 DEF OncePerUnit
  <2>4. QED
    BY <2>1, <2>2, <2>3
<1>3. CASE NextDay
  <2>1. held' = held /\ now' = now + 1 /\ BTypeOK'
    BY <1>3 DEF NextDay
  <2>2. ASSUME NEW p \in Orders, NEW q \in Orders, p # q,
               NEW b \in held[p], NEW c \in held[q], b.unit = c.unit
        PROVE  ~ Clash(b.line, c.line, now + 1)
    BY <2>2, ClashFades, BookingLines
  <2>3. QED
    BY <2>1, <2>2
<1>4. CASE UNCHANGED bvars
  BY <1>4 DEF bvars
<1>5. QED
  BY <1>1, <1>2, <1>3, <1>4 DEF BNext

(* The calendar never double-books.                                        *)
THEOREM CalendarSafe == BSpec => []NoDoubleBooking
<1>1. BInv => NoDoubleBooking
  BY DEF BInv
<1>2. QED
  BY BInitInv, BNextInv, <1>1, PTL DEF BSpec
=============================================================================
