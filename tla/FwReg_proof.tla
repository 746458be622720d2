------------------------------ MODULE FwReg_proof -----------------------------
(***************************************************************************)
(* Proofs about a bank of registers: every core that fits its registers'   *)
(* declarations holds their class values, for any number of registers, any *)
(* layout of their words and any width.                                    *)
(***************************************************************************)
EXTENDS FwReg, TLAPS

\* A word has a byte.
WordsFit == Stride \in Nat \ {0}

------------------------------------------------------------------------------
(* Decode. *)

\* At a whole word of the bus, the core selects the registers whose offset it is,
\* whether it slices an index from the address or compares.
LEMMA SelIsOffset ==
  ASSUME WordsFit, NEW c, Indexed(c), NEW i \in DOMAIN c.regs,
         NEW a \in 0 .. c.span - 1, a % Stride = 0
  PROVE  Sel(c, i, a) <=> a = c.regs[i].off
<1>1. CASE ~c.aligned
  BY <1>1 DEF Sel
<1>2. CASE c.aligned
  <2> DEFINE q == a \div Stride
  <2>1. /\ Stride \in Nat \ {0} /\ c.slots \in Nat \ {0} /\ i \in 1 .. c.slots
        /\ a \in 0 .. c.slots * Stride - 1 /\ c.regs[i].off = (i - 1) * Stride
    BY <1>2 DEF WordsFit, Indexed
  <2>2. q \in Nat /\ a = q * Stride
    BY <2>1
  <2>3. q < c.slots
    <3>1. CASE q >= c.slots
      <4>1. PICK k \in Nat : q = c.slots + k
        BY <2>1, <2>2, <3>1
      <4>2. q * Stride = c.slots * Stride + k * Stride /\ k * Stride >= 0
        BY <2>1, <2>2, <4>1
      <4>3. c.slots * Stride \in Int /\ k * Stride \in Int /\ a < c.slots * Stride
        BY <2>1, <4>1
      <4>4. QED
        BY <2>1, <2>2, <4>2, <4>3
    <3>2. QED
      BY <2>1, <2>2, <3>1
  <2>4. q % c.slots = q
    BY <2>1, <2>2, <2>3
  <2>5. q = i - 1 <=> a = (i - 1) * Stride
    <3>1. i - 1 \in Nat
      BY <2>1
    <3>2. ASSUME NEW m \in Nat, NEW n \in Nat, m * Stride = n * Stride PROVE m = n
      BY <2>1, <3>2
    <3>3. QED
      BY <2>2, <3>1, <3>2
  <2>6. Sel(c, i, a) <=> q % c.slots = i - 1
    BY <1>2 DEF Sel
  <2> HIDE DEF q
  <2>7. QED
    BY <2>1, <2>4, <2>5, <2>6
<1>3. QED
  BY <1>1, <1>2

------------------------------------------------------------------------------
(* What the register map says of a register's fields. *)

\* What a mask says of a field of the map, it says of the field's bits.
FieldOf(f, d) ==
  /\ f.bits \subseteq Cover(d.fields)
  /\ f.reset = d.reset \cap f.bits
  /\ (f.sw /\ f.bits \subseteq d.sw) \/ (~f.sw /\ f.bits \cap d.sw = {})
  /\ (f.hw /\ f.bits \subseteq d.hw) \/ (~f.hw /\ f.bits \cap d.hw = {})
  /\ (f.rclr /\ f.bits \subseteq d.rclr) \/ (~f.rclr /\ f.bits \cap d.rclr = {})

LEMMA FieldsAreDeclared ==
  ASSUME NEW c, NEW ds, Mapped(c, ds), NEW i \in DOMAIN c.regs, Kept(ds[RegId(c, i)]),
         NEW f \in FieldsOf(c.regs[i])
  PROVE  /\ FieldOf(f, ds[RegId(c, i)])
         /\ \E j \in DOMAIN ds[RegId(c, i)].fields : ds[RegId(c, i)].fields[j].bits = f.bits
<1> DEFINE d == ds[RegId(c, i)]
<1>1. c.regs[i].reg.fields = FieldTable(d)
  BY DEF Mapped
<1>2. PICK j \in DOMAIN d.fields : f = FieldTable(d)[j]
  BY <1>1 DEF FieldsOf, FieldTable
<1>3. f = [n |-> d.fields[j].n, bits |-> d.fields[j].bits,
           sw |-> d.sw \cap d.fields[j].bits # {}, hw |-> d.hw \cap d.fields[j].bits # {},
           rclr |-> d.rclr \cap d.fields[j].bits # {}, reset |-> d.reset \cap d.fields[j].bits]
  BY <1>2 DEF FieldTable
<1>4. /\ Whole(d.fields[j].bits, d.sw) /\ Whole(d.fields[j].bits, d.hw) /\ Whole(d.fields[j].bits, d.rclr)
  BY DEF Kept
<1>5. f.bits \subseteq Cover(d.fields)
  BY <1>3 DEF Cover
<1> HIDE DEF d
<1>6. FieldOf(f, d)
  BY <1>3, <1>4, <1>5 DEF FieldOf, Whole
<1>7. QED
  BY <1>3, <1>6 DEF d

\* Every bit of the word is in a field, and the name of a field tells it.
LEMMA FieldsMakeTheWord ==
  ASSUME NEW c, NEW ds, Mapped(c, ds), NEW i \in DOMAIN c.regs, Kept(ds[RegId(c, i)])
  PROVE  /\ \A b \in Cover(ds[RegId(c, i)].fields) : \E f \in FieldsOf(c.regs[i]) : b \in f.bits
         /\ \A f, g \in FieldsOf(c.regs[i]) : f.n = g.n => f = g
<1> DEFINE d == ds[RegId(c, i)]
<1>1. c.regs[i].reg.fields = FieldTable(d) /\ DOMAIN FieldTable(d) = DOMAIN d.fields
  BY DEF Mapped, FieldTable
<1>2. \A j \in DOMAIN d.fields :
        FieldTable(d)[j].n = d.fields[j].n /\ FieldTable(d)[j].bits = d.fields[j].bits
  BY DEF FieldTable
<1>3. \A j, k \in DOMAIN d.fields : j # k => d.fields[j].n # d.fields[k].n
  BY DEF Kept
<1>4. FieldsOf(c.regs[i]) = {FieldTable(d)[j] : j \in DOMAIN d.fields}
  BY <1>1 DEF FieldsOf
<1> HIDE DEF d
<1>5. \A b \in Cover(d.fields) : \E f \in FieldsOf(c.regs[i]) : b \in f.bits
  BY <1>2, <1>4 DEF Cover
<1>6. \A f, g \in FieldsOf(c.regs[i]) : f.n = g.n => f = g
  BY <1>2, <1>3, <1>4
<1>7. QED
  BY <1>5, <1>6 DEF d

------------------------------------------------------------------------------
(* Flops and their signals. *)

LEMMA FlopIsStored ==
  ASSUME NEW c, NEW x
  PROVE  x \in Flops(c) <=> \E i \in DOMAIN c.regs : \E f \in Stored(c, c.regs[i]) : x = [i |-> i, f |-> f]
BY DEF Flops

LEMMA FlopTyped ==
  ASSUME NEW c, NEW x \in Flops(c)
  PROVE  /\ x.i \in DOMAIN c.regs /\ x.f \in Stored(c, c.regs[x.i]) /\ x = [i |-> x.i, f |-> x.f]
         /\ x.f \in FieldsOf(c.regs[x.i])
<1>1. PICK i \in DOMAIN c.regs : \E f \in Stored(c, c.regs[i]) : x = [i |-> i, f |-> f]
  BY FlopIsStored
<1>2. PICK f \in Stored(c, c.regs[i]) : x = [i |-> i, f |-> f]
  BY <1>1
<1>3. x.i = i /\ x.f = f
  BY <1>2
<1>4. QED
  BY <1>2, <1>3 DEF Stored

\* A signal's name tells the register and the field.
LEMMA SignalTellsFlop ==
  ASSUME NEW c, NEW ds, Mapped(c, ds), \A id \in DOMAIN ds : Kept(ds[id]),
         NEW x \in Flops(c), NEW i \in DOMAIN c.regs, NEW f \in FieldsOf(c.regs[i]),
         Sig(c, x) = <<c.regs[i].q, f.n>>
  PROVE  x = [i |-> i, f |-> f] /\ f \in Stored(c, c.regs[i])
<1>1. x.i \in DOMAIN c.regs /\ x.f \in FieldsOf(c.regs[x.i]) /\ x.f \in Stored(c, c.regs[x.i])
      /\ x = [i |-> x.i, f |-> x.f]
  BY FlopTyped
<1>2. c.regs[x.i].q = c.regs[i].q /\ x.f.n = f.n
  BY DEF Sig
<1>3. x.i = i
  BY <1>1, <1>2 DEF Mapped
<1>4. Kept(ds[RegId(c, i)])
  BY DEF Mapped
<1>5. x.f = f
  BY <1>1, <1>2, <1>3, <1>4, FieldsMakeTheWord
<1>6. QED
  BY <1>1, <1>3, <1>5

LEMMA FlopOfSignal ==
  ASSUME NEW c, NEW ds, Mapped(c, ds), \A id \in DOMAIN ds : Kept(ds[id]), NEW x \in Flops(c)
  PROVE  FlopOf(c, Sig(c, x)) = x
<1>1. \A y \in Flops(c) : Sig(c, y) = Sig(c, x) => y = x
  <2> SUFFICES ASSUME NEW y \in Flops(c), Sig(c, y) = Sig(c, x) PROVE y = x
    OBVIOUS
  <2>1. x.i \in DOMAIN c.regs /\ x.f \in FieldsOf(c.regs[x.i]) /\ x = [i |-> x.i, f |-> x.f]
    BY FlopTyped
  <2>2. Sig(c, y) = <<c.regs[x.i].q, x.f.n>>
    BY DEF Sig
  <2>3. QED
    BY <2>1, <2>2, SignalTellsFlop
<1>2. QED
  BY <1>1 DEF FlopOf


------------------------------------------------------------------------------
(* One field through a cycle: the class value's bits of it, and its flop. *)

\* A bus access that reaches the register does to the field's bits what the
\* field's flop does.
LEMMA WriteOnField ==
  ASSUME NEW d, NEW f, NEW v, NEW w, FieldOf(f, d), d.pulse = {}
  PROVE  /\ f.sw => AfterWrite(d, v, w) \cap f.bits = w \cap f.bits
         /\ ~f.sw => AfterWrite(d, v, w) \cap f.bits = v \cap f.bits
<1>1. AfterWrite(d, v, w) = (v \ d.sw) \cup (w \cap d.sw)
  BY DEF AfterWrite, Written
<1>2. QED
  BY <1>1 DEF FieldOf

LEMMA ReadOnField ==
  ASSUME NEW d, NEW f, NEW v, FieldOf(f, d)
  PROVE  /\ f.rclr => AfterRead(d, v) \cap f.bits = {}
         /\ ~f.rclr => AfterRead(d, v) \cap f.bits = v \cap f.bits
BY DEF FieldOf, AfterRead

\* Of a field that hardware writes, an update has all or nothing; of another it
\* has nothing.
LEMMA UpdateOnField ==
  ASSUME NEW d, NEW f, NEW v, NEW w, NEW m, FieldOf(f, d), f.hw => Whole(f.bits, m)
  PROVE  AfterUpdate(d, v, w, m) \cap f.bits
           = (IF f.hw /\ f.bits \cap m # {} THEN w \cap f.bits ELSE v \cap f.bits)
<1>1. CASE f.hw /\ f.bits \cap m # {}
  <2>1. f.bits \subseteq d.hw \cap m
    BY <1>1 DEF FieldOf, Whole
  <2>2. QED
    BY <1>1, <2>1 DEF AfterUpdate
<1>2. CASE ~(f.hw /\ f.bits \cap m # {})
  <2>1. f.bits \cap (d.hw \cap m) = {}
    BY <1>2 DEF FieldOf
  <2>2. QED
    BY <1>2, <2>1 DEF AfterUpdate
<1>3. QED
  BY <1>1, <1>2

\* Bits that nobody writes stay, and no others come.
LEMMA RestStays ==
  ASSUME NEW d, NEW v, Kept(d), v \subseteq Cover(d.fields)
  PROVE  /\ \A w : /\ AfterWrite(d, v, w) \subseteq Cover(d.fields)
                   /\ AfterWrite(d, v, w) \ (d.sw \cup d.hw) = v \ (d.sw \cup d.hw)
         /\ AfterRead(d, v) \subseteq Cover(d.fields)
         /\ AfterRead(d, v) \ (d.sw \cup d.hw) = v \ (d.sw \cup d.hw)
         /\ \A w, m : /\ AfterUpdate(d, v, w, m) \subseteq Cover(d.fields)
                      /\ AfterUpdate(d, v, w, m) \ (d.sw \cup d.hw) = v \ (d.sw \cup d.hw)
<1>1. d.sw \cup d.hw \subseteq Cover(d.fields) /\ d.rclr \subseteq d.sw \cup d.hw /\ d.pulse = {}
  BY DEF Kept
<1>2. \A w : AfterWrite(d, v, w) = (v \ d.sw) \cup (w \cap d.sw)
  BY <1>1 DEF AfterWrite, Written
<1>3. \A w : /\ AfterWrite(d, v, w) \subseteq Cover(d.fields)
             /\ AfterWrite(d, v, w) \ (d.sw \cup d.hw) = v \ (d.sw \cup d.hw)
  BY <1>1, <1>2
<1>4. AfterRead(d, v) \subseteq Cover(d.fields) /\ AfterRead(d, v) \ (d.sw \cup d.hw) = v \ (d.sw \cup d.hw)
  BY <1>1 DEF AfterRead
<1>5. \A w, m : /\ AfterUpdate(d, v, w, m) \subseteq Cover(d.fields)
                /\ AfterUpdate(d, v, w, m) \ (d.sw \cup d.hw) = v \ (d.sw \cup d.hw)
  BY <1>1 DEF AfterUpdate
<1>6. QED
  BY <1>3, <1>4, <1>5

------------------------------------------------------------------------------
(* The invariant: the core fits; every flop has the class value's bits of its
   field; and of the bits without a flop, those that nobody writes are as they
   were declared. *)

FlopsHeld == \A x \in Flops(core) : flops[Sig(core, x)] = val[RegId(core, x.i)] \cap x.f.bits
RestHeld ==
  \A id \in DOMAIN decls :
    /\ val[id] \subseteq Cover(decls[id].fields)
    /\ val[id] \ (decls[id].sw \cup decls[id].hw) = decls[id].reset \ (decls[id].sw \cup decls[id].hw)
BankHeld ==
  /\ Fits(core, decls)
  /\ DOMAIN val = DOMAIN decls
  /\ DOMAIN flops = Signals(core)
  /\ FlopsHeld
  /\ RestHeld
BankInv == BankHeld /\ SameShown

LEMMA InitHeld ==
  ASSUME BankInit
  PROVE  BankInv
<1>1. Fits(core, decls) /\ Mapped(core, decls) /\ \A id \in DOMAIN decls : Kept(decls[id])
  BY DEF BankInit, Fits
<1>2. DOMAIN val = DOMAIN decls /\ \A id \in DOMAIN decls : val[id] = decls[id].reset
  BY DEF BankInit
<1>3. DOMAIN flops = Signals(core)
  BY DEF BankInit, AfterReset
<1>4. FlopsHeld
  <2> SUFFICES ASSUME NEW x \in Flops(core)
               PROVE flops[Sig(core, x)] = val[RegId(core, x.i)] \cap x.f.bits
    BY DEF FlopsHeld
  <2>1. flops[Sig(core, x)] = x.f.reset
    <3>1. Sig(core, x) \in Signals(core)
      BY DEF Signals
    <3>2. flops[Sig(core, x)] = FlopOf(core, Sig(core, x)).f.reset
      BY <3>1 DEF BankInit, AfterReset
    <3>3. QED
      BY <1>1, <3>2, FlopOfSignal
  <2>2. x.i \in DOMAIN core.regs /\ x.f \in FieldsOf(core.regs[x.i])
    BY FlopTyped
  <2>3. RegId(core, x.i) \in DOMAIN decls
    BY <1>1, <2>2 DEF Mapped
  <2>4. FieldOf(x.f, decls[RegId(core, x.i)])
    BY <1>1, <2>2, <2>3, FieldsAreDeclared
  <2>5. QED
    BY <1>2, <2>1, <2>3, <2>4 DEF FieldOf
<1>5. RestHeld
  BY <1>1, <1>2 DEF RestHeld, Kept
<1>6. SameShown
  <2>1. seen.class = Nothing /\ seen.rtl = Nothing
    BY DEF BankInit
  <2>2. QED
    BY <2>1 DEF SameShown
<1>7. QED
  BY <1>1, <1>2, <1>3, <1>4, <1>5, <1>6 DEF BankInv, BankHeld


------------------------------------------------------------------------------
(* A cycle. *)

\* The class decodes an access as the core does, up to who may make it.
LEMMA DecodedIsSelected ==
  ASSUME WordsFit, Fits(core, decls), NEW bus \in BankBus, NEW i \in DOMAIN core.regs
  PROVE  /\ Sel(core, i, bus.a) <=> bus.a = core.regs[i].off
         /\ RegId(core, i) \in DOMAIN decls /\ RegId(core, i)[1] = core.regs[i].off
         /\ RegId(core, i) \in Decoded(bus)
              <=> Sel(core, i, bus.a) /\ bus.k \in Access(decls[RegId(core, i)])
<1>1. Indexed(core) /\ Mapped(core, decls)
  BY DEF Fits
<1>2. bus.a \in 0 .. core.span - 1 /\ bus.a % Stride = 0
  BY DEF BankBus
<1>3. Sel(core, i, bus.a) <=> bus.a = core.regs[i].off
  BY <1>1, <1>2, SelIsOffset
<1>4. RegId(core, i) \in DOMAIN decls /\ RegId(core, i)[1] = core.regs[i].off
  BY <1>1 DEF Mapped, RegId
<1>5. QED
  BY <1>3, <1>4 DEF Decoded

\* The pins that hardware drives carry the update of the fields it touches.
LEMMA DrivesOf ==
  ASSUME Fits(core, decls), NEW ups, NEW x \in Flops(core)
  PROVE  /\ Sig(core, x) \in DOMAIN HwDrives(core, ups) <=> x \in Touched(core, ups)
         /\ x \in Touched(core, ups) =>
              HwDrives(core, ups)[Sig(core, x)] = ups[RegId(core, x.i)].v \cap x.f.bits
<1>1. \A y \in Flops(core) : FlopOf(core, Sig(core, y)) = y
  BY FlopOfSignal DEF Fits
<1>2. Touched(core, ups) \subseteq Flops(core)
  BY DEF Touched
<1> DEFINE T == {Sig(core, y) : y \in Touched(core, ups)}
<1>3. DOMAIN HwDrives(core, ups) = T
  BY DEF HwDrives
<1>4. Sig(core, x) \in T <=> x \in Touched(core, ups)
  BY <1>1, <1>2
<1>5. ASSUME Sig(core, x) \in T
      PROVE  HwDrives(core, ups)[Sig(core, x)] = ups[RegId(core, x.i)].v \cap x.f.bits
  <2>1. HwDrives(core, ups)[Sig(core, x)]
          = ups[RegId(core, FlopOf(core, Sig(core, x)).i)].v \cap FlopOf(core, Sig(core, x)).f.bits
    BY <1>5 DEF HwDrives
  <2>2. QED
    BY <1>1, <2>1
<1> HIDE DEF T
<1>6. QED
  BY <1>3, <1>4, <1>5

\* What a bus access leaves of a field's bits, on either side.
LEMMA BusStep ==
  ASSUME WordsFit, BankHeld, NEW bus \in BankBus, NEW x \in Flops(core)
  PROVE  AfterBus(val, Decoded(bus), bus)[RegId(core, x.i)] \cap x.f.bits
           = IF x.f.sw /\ Sel(core, x.i, bus.a) /\ bus.k = "wr" THEN bus.d \cap x.f.bits
             ELSE IF x.f.rclr /\ Sel(core, x.i, bus.a) /\ bus.k = "rd" THEN {}
             ELSE val[RegId(core, x.i)] \cap x.f.bits
<1> DEFINE id == RegId(core, x.i)
           dec == decls[id]
           f == x.f
           sel == Sel(core, x.i, bus.a)
           u == AfterBus(val, Decoded(bus), bus)[id]
<1>1. x.i \in DOMAIN core.regs /\ f \in FieldsOf(core.regs[x.i])
  BY FlopTyped
<1>2. Fits(core, decls) /\ Mapped(core, decls) /\ DOMAIN val = DOMAIN decls
  BY DEF BankHeld, Fits
<1>3. id \in DOMAIN decls /\ (id \in Decoded(bus) <=> sel /\ bus.k \in Access(dec))
  BY <1>1, <1>2, DecodedIsSelected
<1>4. Kept(dec)
  BY <1>2, <1>3 DEF Fits
<1>5. FieldOf(f, dec) /\ dec.pulse = {}
  BY <1>1, <1>2, <1>4, FieldsAreDeclared DEF Kept
<1>6. u = IF id \notin Decoded(bus) THEN val[id]
          ELSE IF bus.k = "wr" THEN AfterWrite(dec, val[id], bus.d) ELSE AfterRead(dec, val[id])
  BY <1>2, <1>3 DEF AfterBus
<1>7. (dec.acc = "RO" => dec.sw = {}) /\ (dec.acc = "WO" => dec.rclr = {})
  BY <1>4 DEF Kept
<1>8. dec.acc = "RO" \/ dec.acc = "WO" \/ Access(dec) = {"rd", "wr"}
  BY DEF Access
<1>9. (dec.acc = "RO" => Access(dec) = {"rd"}) /\ (dec.acc = "WO" => Access(dec) = {"wr"})
  BY DEF Access
<1>10. bus.k \in {"idle", "rd", "wr"}
  BY DEF BankBus
<1>11. (dec.sw = {} => ~f.sw \/ f.bits = {}) /\ (dec.rclr = {} => ~f.rclr \/ f.bits = {})
  BY <1>5 DEF FieldOf
<1> HIDE DEF id, dec, f, sel, u
<1>12. /\ f.sw => AfterWrite(dec, val[id], bus.d) \cap f.bits = bus.d \cap f.bits
       /\ ~f.sw => AfterWrite(dec, val[id], bus.d) \cap f.bits = val[id] \cap f.bits
       /\ f.rclr => AfterRead(dec, val[id]) \cap f.bits = {}
       /\ ~f.rclr => AfterRead(dec, val[id]) \cap f.bits = val[id] \cap f.bits
  BY <1>5, WriteOnField, ReadOnField
<1>13. u \cap f.bits = IF f.sw /\ sel /\ bus.k = "wr" THEN bus.d \cap f.bits
                      ELSE IF f.rclr /\ sel /\ bus.k = "rd" THEN {}
                      ELSE val[id] \cap f.bits
  <2>1. CASE id \in Decoded(bus) /\ bus.k = "wr"
    BY <1>3, <1>6, <1>12, <2>1
  <2>2. CASE id \in Decoded(bus) /\ bus.k # "wr"
    <3>1. bus.k = "rd"
      BY <1>3, <1>8, <1>9, <1>10, <2>2
    <3>2. QED
      BY <1>3, <1>6, <1>12, <2>2, <3>1
  <2>3. CASE id \notin Decoded(bus)
    <3>1. u = val[id] /\ ~(sel /\ bus.k \in Access(dec))
      BY <1>3, <1>6, <2>3
    <3>2. CASE f.bits = {}
      BY <3>1, <3>2
    <3>3. CASE ~(f.sw /\ sel /\ bus.k = "wr") /\ ~(f.rclr /\ sel /\ bus.k = "rd")
      BY <3>1, <3>3
    <3>4. CASE f.bits # {} /\ f.sw /\ sel /\ bus.k = "wr"
      BY <1>7, <1>8, <1>9, <1>11, <3>1, <3>4
    <3>5. CASE f.bits # {} /\ f.rclr /\ sel /\ bus.k = "rd"
      BY <1>7, <1>8, <1>9, <1>11, <3>1, <3>5
    <3>6. QED
      BY <3>2, <3>3, <3>4, <3>5
  <2>4. QED
    BY <2>1, <2>2, <2>3
<1>14. QED
  BY <1>13 DEF id, dec, f, sel, u


\* Every flop leaves a cycle with the class value's bits of its field.
LEMMA FlopsStayHeld ==
  ASSUME WordsFit, BankHeld, NEW bus \in BankBus, NEW ups, WholeFields(ups), DOMAIN ups \subseteq DOMAIN decls,
         NEW x \in Flops(core)
  PROVE  NextFields(core, flops, bus, HwDrives(core, ups))[Sig(core, x)]
           = AfterHw(AfterBus(val, Decoded(bus), bus), ups)[RegId(core, x.i)] \cap x.f.bits
<1> DEFINE id == RegId(core, x.i)
           dec == decls[id]
           f == x.f
           s == Sig(core, x)
           drv == HwDrives(core, ups)
           u == AfterBus(val, Decoded(bus), bus)
           next == NextFields(core, flops, bus, drv)[s]
           bused == IF f.sw /\ Sel(core, x.i, bus.a) /\ bus.k = "wr" THEN bus.d \cap f.bits
                    ELSE IF f.rclr /\ Sel(core, x.i, bus.a) /\ bus.k = "rd" THEN {}
                    ELSE val[id] \cap f.bits
<1>1. x.i \in DOMAIN core.regs /\ f \in FieldsOf(core.regs[x.i])
  BY FlopTyped
<1>2. Fits(core, decls) /\ Mapped(core, decls) /\ DOMAIN val = DOMAIN decls
  BY DEF BankHeld, Fits
<1>3. \A r \in DOMAIN decls : Kept(decls[r])
  BY <1>2 DEF Fits
<1>4. id \in DOMAIN decls
  BY <1>1, <1>2 DEF Mapped
<1>5. FieldOf(f, dec) /\ \E j \in DOMAIN dec.fields : dec.fields[j].bits = f.bits
  BY <1>1, <1>2, <1>3, <1>4, FieldsAreDeclared
<1>6. u[id] \cap f.bits = bused
  BY BusStep
<1>7. next = IF f.hw /\ s \in DOMAIN drv THEN drv[s] ELSE bused
  <2>1. s \in Signals(core) /\ FlopOf(core, s) = x
    BY <1>2, <1>3, FlopOfSignal DEF Signals
  <2>2. next = NextField(core, s, flops[s], bus, drv)
    BY <2>1 DEF NextFields
  <2>3. flops[s] = val[id] \cap f.bits
    BY DEF BankHeld, FlopsHeld
  <2>4. QED
    BY <2>1, <2>2, <2>3 DEF NextField
<1>8. /\ s \in DOMAIN drv <=> f.hw /\ id \in DOMAIN ups /\ f.bits \cap ups[id].m # {}
      /\ s \in DOMAIN drv => drv[s] = ups[id].v \cap f.bits
  BY <1>2, DrivesOf DEF Touched
<1>9. AfterHw(u, ups)[id] = IF id \in DOMAIN ups THEN AfterUpdate(dec, u[id], ups[id].v, ups[id].m) ELSE u[id]
  BY <1>2, <1>4 DEF AfterHw, AfterBus
<1>10. id \in DOMAIN ups => (f.hw => Whole(f.bits, ups[id].m))
  BY <1>5 DEF WholeFields, FieldOf
<1> HIDE DEF id, dec, f, s, drv, u, next, bused
<1>11. next = AfterHw(u, ups)[id] \cap f.bits
  <2>1. CASE id \notin DOMAIN ups
    BY <1>6, <1>7, <1>8, <1>9, <2>1
  <2>2. CASE id \in DOMAIN ups
    <3>1. AfterUpdate(dec, u[id], ups[id].v, ups[id].m) \cap f.bits
            = (IF f.hw /\ f.bits \cap ups[id].m # {} THEN ups[id].v \cap f.bits ELSE u[id] \cap f.bits)
      BY <1>5, <1>10, <2>2, UpdateOnField
    <3>2. CASE f.hw /\ f.bits \cap ups[id].m # {}
      BY <1>7, <1>8, <1>9, <2>2, <3>1, <3>2
    <3>3. CASE ~(f.hw /\ f.bits \cap ups[id].m # {})
      BY <1>6, <1>7, <1>8, <1>9, <2>2, <3>1, <3>3
    <3>4. QED
      BY <3>2, <3>3
  <2>3. QED
    BY <2>1, <2>2
<1>12. QED
  BY <1>11 DEF id, dec, f, s, drv, u, next

\* Bits without a flop stay as they were.
LEMMA RestStaysHeld ==
  ASSUME BankHeld, NEW bus, NEW ups, NEW id \in DOMAIN decls
  PROVE  LET v == AfterHw(AfterBus(val, Decoded(bus), bus), ups)[id]
         IN  /\ v \subseteq Cover(decls[id].fields)
             /\ v \ (decls[id].sw \cup decls[id].hw) = decls[id].reset \ (decls[id].sw \cup decls[id].hw)
<1> DEFINE d == decls[id]
           nobody == d.sw \cup d.hw
           u == AfterBus(val, Decoded(bus), bus)
           v == AfterHw(u, ups)[id]
<1>1. Kept(d) /\ id \in DOMAIN val
  BY DEF BankHeld, Fits
<1>2. val[id] \subseteq Cover(d.fields) /\ val[id] \ nobody = d.reset \ nobody
  BY DEF BankHeld, RestHeld
<1>3. u[id] = IF id \notin Decoded(bus) THEN val[id]
              ELSE IF bus.k = "wr" THEN AfterWrite(d, val[id], bus.d) ELSE AfterRead(d, val[id])
  BY <1>1 DEF AfterBus
<1>4. v = IF id \in DOMAIN ups THEN AfterUpdate(d, u[id], ups[id].v, ups[id].m) ELSE u[id]
  BY <1>1 DEF AfterHw, AfterBus
<1>5. nobody = d.sw \cup d.hw
  OBVIOUS
<1> HIDE DEF d, nobody, u, v
<1>6. /\ \A w : AfterWrite(d, val[id], w) \subseteq Cover(d.fields) /\ AfterWrite(d, val[id], w) \ nobody = val[id] \ nobody
      /\ AfterRead(d, val[id]) \subseteq Cover(d.fields) /\ AfterRead(d, val[id]) \ nobody = val[id] \ nobody
  BY <1>1, <1>2, <1>5, RestStays
<1>7. u[id] \subseteq Cover(d.fields) /\ u[id] \ nobody = d.reset \ nobody
  BY <1>2, <1>3, <1>6
<1>8. \A w, m : /\ AfterUpdate(d, u[id], w, m) \subseteq Cover(d.fields)
                /\ AfterUpdate(d, u[id], w, m) \ nobody = u[id] \ nobody
  BY <1>1, <1>5, <1>7, RestStays
<1>9. v \subseteq Cover(d.fields) /\ v \ nobody = d.reset \ nobody
  BY <1>4, <1>7, <1>8
<1>10. QED
  BY <1>9 DEF d, nobody, u, v


------------------------------------------------------------------------------
(* Words. *)

\* The flops of a register make its word, up to the bits that nobody writes and
\* those that the provider keeps.
LEMMA WordIsValue ==
  ASSUME BankHeld, NEW i \in DOMAIN core.regs,
         decls[RegId(core, i)].reset \subseteq decls[RegId(core, i)].sw \cup decls[RegId(core, i)].hw
  PROVE  LET id == RegId(core, i)
         IN  /\ Reflects(core, core.regs[i]) => Word(core, i, flops) \ decls[id].hw = val[id] \ decls[id].hw
             /\ ~Reflects(core, core.regs[i]) => Word(core, i, flops) = val[id]
<1> DEFINE id == RegId(core, i)
           d == decls[id]
           r == core.regs[i]
           word == Word(core, i, flops)
<1>1. Mapped(core, decls) /\ id \in DOMAIN decls /\ Kept(d)
  BY DEF BankHeld, Fits, Mapped
<1>2. \A f \in FieldsOf(r) : FieldOf(f, d)
  BY <1>1, FieldsAreDeclared
<1>3. \A b \in Cover(d.fields) : \E f \in FieldsOf(r) : b \in f.bits
  BY <1>1, FieldsMakeTheWord
<1>4. \A f \in Stored(core, r) : flops[<<r.q, f.n>>] = val[id] \cap f.bits
  <2> SUFFICES ASSUME NEW f \in Stored(core, r) PROVE flops[<<r.q, f.n>>] = val[id] \cap f.bits
    OBVIOUS
  <2>1. [i |-> i, f |-> f] \in Flops(core)
    BY FlopIsStored
  <2>2. flops[Sig(core, [i |-> i, f |-> f])] = val[id] \cap f.bits
    BY <2>1 DEF BankHeld, FlopsHeld
  <2>3. QED
    BY <2>2 DEF Sig
<1>5. word = UNION {val[id] \cap f.bits : f \in Stored(core, r)}
  BY <1>4 DEF Word
<1>6. Stored(core, r) = {f \in FieldsOf(r) : ~(~f.sw /\ ~f.hw) /\ ~(Reflects(core, r) /\ f.hw /\ ~f.sw)}
  BY DEF Stored, Reserved, HwOnly
<1>7. val[id] \subseteq Cover(d.fields) /\ val[id] \subseteq d.sw \cup d.hw
  <2>1. val[id] \subseteq Cover(d.fields) /\ val[id] \ (d.sw \cup d.hw) = d.reset \ (d.sw \cup d.hw)
    BY <1>1 DEF BankHeld, RestHeld
  <2>2. d.reset \subseteq d.sw \cup d.hw
    OBVIOUS
  <2> HIDE DEF id, d
  <2>3. QED
    BY <2>1, <2>2
<1> HIDE DEF id, d, r, word
<1>8. word \subseteq val[id]
  BY <1>5
<1>9. ASSUME NEW b \in val[id], b \notin word
      PROVE  Reflects(core, r) /\ b \in d.hw
  <2>1. PICK f \in FieldsOf(r) : b \in f.bits
    BY <1>3, <1>7, <1>9
  <2>2. f \notin Stored(core, r)
    BY <1>5, <1>9, <2>1
  <2>3. (~f.sw /\ ~f.hw) \/ (Reflects(core, r) /\ f.hw /\ ~f.sw)
    BY <1>6, <2>1, <2>2
  <2>4. b \in d.sw \/ b \in d.hw
    BY <1>7, <1>9
  <2>5. FieldOf(f, d)
    BY <1>2
  <2>6. QED
    BY <2>1, <2>3, <2>4, <2>5 DEF FieldOf
<1>10. /\ Reflects(core, r) => word \ d.hw = val[id] \ d.hw
       /\ ~Reflects(core, r) => word = val[id]
  BY <1>8, <1>9
<1>11. QED
  BY <1>10 DEF id, d, r, word

\* A level of the core is the register's word, the bits without a flop as declared.
LEMMA LevelIsValue ==
  ASSUME BankHeld, core.providers = {}, NEW i \in DOMAIN core.regs
  PROVE  Level(core, i, flops) = val[RegId(core, i)]
<1> DEFINE id == RegId(core, i)
           d == decls[id]
           r == core.regs[i]
           part(f) == IF <<r.q, f.n>> \in Signals(core) THEN flops[<<r.q, f.n>>] ELSE f.reset
<1>1. Mapped(core, decls) /\ id \in DOMAIN decls /\ \A j \in DOMAIN decls : Kept(decls[j])
  BY DEF BankHeld, Fits, Mapped
<1>2. \A f \in FieldsOf(r) : FieldOf(f, d)
  BY <1>1, FieldsAreDeclared
<1>3. \A b \in Cover(d.fields) : \E f \in FieldsOf(r) : b \in f.bits
  BY <1>1, FieldsMakeTheWord
<1>4. val[id] \subseteq Cover(d.fields) /\ val[id] \ (d.sw \cup d.hw) = d.reset \ (d.sw \cup d.hw)
  BY <1>1 DEF BankHeld, RestHeld
<1>5. ASSUME NEW f \in FieldsOf(r)
      PROVE  part(f) = val[id] \cap f.bits
  <2>1. CASE Reserved(f)
    <3>1. <<r.q, f.n>> \notin Signals(core)
      <4>1. ASSUME NEW x \in Flops(core), Sig(core, x) = <<r.q, f.n>> PROVE FALSE
        <5>1. f \in Stored(core, r)
          BY <1>1, <4>1, SignalTellsFlop
        <5>2. QED
          BY <2>1, <5>1 DEF Stored
      <4>2. QED
        BY <4>1 DEF Signals
    <3>2. part(f) = f.reset
      BY <3>1
    <3>3. f.reset = d.reset \cap f.bits /\ f.bits \cap (d.sw \cup d.hw) = {}
      BY <1>2, <2>1 DEF FieldOf, Reserved
    <3> HIDE DEF id, d, r, part
    <3>4. QED
      BY <1>4, <3>2, <3>3
  <2>2. CASE ~Reserved(f)
    <3>1. f \in Stored(core, r)
      BY <2>2 DEF Stored, Reflects
    <3>2. [i |-> i, f |-> f] \in Flops(core)
      BY <3>1, FlopIsStored
    <3>3. Sig(core, [i |-> i, f |-> f]) = <<r.q, f.n>>
      BY DEF Sig
    <3>4. flops[<<r.q, f.n>>] = val[id] \cap f.bits
      BY <3>2, <3>3 DEF BankHeld, FlopsHeld
    <3>5. <<r.q, f.n>> \in Signals(core)
      BY <3>2, <3>3 DEF Signals
    <3>6. QED
      BY <3>4, <3>5
  <2>3. QED
    BY <2>1, <2>2
<1>6. Level(core, i, flops) = UNION {part(f) : f \in FieldsOf(r)}
  BY DEF Level
<1> HIDE DEF id, d, r, part
<1>7. UNION {part(f) : f \in FieldsOf(r)} = val[id]
  BY <1>3, <1>4, <1>5
<1>8. QED
  BY <1>6, <1>7 DEF id

LEMMA HeldValues ==
  ASSUME BankHeld
  PROVE  SameValues
<1> SUFFICES ASSUME NEW i \in DOMAIN core.regs
             PROVE  /\ \A f \in Stored(core, core.regs[i]) :
                         flops[<<core.regs[i].q, f.n>>] = val[RegId(core, i)] \cap f.bits
                    /\ core.providers = {} => Level(core, i, flops) = val[RegId(core, i)]
  BY DEF SameValues
<1>1. ASSUME NEW f \in Stored(core, core.regs[i])
      PROVE  flops[<<core.regs[i].q, f.n>>] = val[RegId(core, i)] \cap f.bits
  <2>1. [i |-> i, f |-> f] \in Flops(core)
    BY FlopIsStored
  <2>2. flops[Sig(core, [i |-> i, f |-> f])] = val[RegId(core, i)] \cap f.bits
    BY <2>1 DEF BankHeld, FlopsHeld
  <2>3. QED
    BY <2>2 DEF Sig
<1>2. QED
  BY <1>1, LevelIsValue


------------------------------------------------------------------------------
(* What an access shows. *)

\* The observers of the registers that a write reaches are struck.
LEMMA SameObserved ==
  ASSUME WordsFit, Fits(core, decls), NEW bus \in BankBus, NEW live
  PROVE  ClassShows(bus, Decoded(bus), Hooked(core.providers), Hooked(core.observers), live).observed
           = RtlShows(bus, live).observed
<1> DEFINE heard == {id[1] : id \in Decoded(bus) \cap Hooked(core.observers)}
           struck == {o \in core.observers :
                       bus.k = "wr" /\ \E i \in DOMAIN core.regs : core.regs[i].off \in {o} /\ Sel(core, i, bus.a)}
<1>1. RtlShows(bus, live).observed = struck
  BY DEF RtlShows, ObserverStrobes, Struck
<1>2. ClassShows(bus, Decoded(bus), Hooked(core.providers), Hooked(core.observers), live).observed
        = IF bus.k = "wr" THEN heard ELSE {}
  BY DEF ClassShows
<1>3. \A i \in DOMAIN core.regs :
        /\ Sel(core, i, bus.a) <=> bus.a = core.regs[i].off
        /\ RegId(core, i) \in DOMAIN decls /\ RegId(core, i)[1] = core.regs[i].off
        /\ RegId(core, i) \in Decoded(bus) <=> Sel(core, i, bus.a) /\ bus.k \in Access(decls[RegId(core, i)])
  BY DecodedIsSelected
<1>4. \A id \in DOMAIN decls : \E i \in DOMAIN core.regs : id = RegId(core, i)
  BY DEF Fits, Mapped
<1>5. \A id \in DOMAIN decls : id[1] \in core.observers => "wr" \in Access(decls[id])
  BY DEF Fits, Access
<1>6. CASE bus.k = "wr"
  <2>1. ASSUME NEW o \in heard PROVE o \in struck
    <3>1. PICK id \in Decoded(bus) \cap Hooked(core.observers) : o = id[1]
      BY <2>1
    <3>2. id \in DOMAIN decls /\ o \in core.observers
      BY <3>1 DEF Hooked
    <3>3. PICK i \in DOMAIN core.regs : id = RegId(core, i)
      BY <1>4, <3>2
    <3>4. QED
      BY <1>3, <1>6, <3>1, <3>2, <3>3
  <2>2. ASSUME NEW o \in struck PROVE o \in heard
    <3>1. PICK i \in DOMAIN core.regs : core.regs[i].off = o /\ Sel(core, i, bus.a)
      BY <2>2
    <3>2. o \in core.observers
      BY <2>2
    <3>3. RegId(core, i) \in Hooked(core.observers)
      BY <1>3, <3>1, <3>2 DEF Hooked
    <3>4. RegId(core, i) \in Decoded(bus)
      BY <1>3, <1>5, <1>6, <3>1, <3>2
    <3>5. QED
      BY <1>3, <3>1, <3>3, <3>4
  <2> HIDE DEF heard, struck
  <2>3. heard = struck
    BY <2>1, <2>2
  <2>4. QED
    BY <1>1, <1>2, <1>6, <2>3
<1>7. CASE bus.k # "wr"
  <2>1. struck = {}
    BY <1>7
  <2> HIDE DEF heard, struck
  <2>2. QED
    BY <1>1, <1>2, <1>7, <2>1
<1>8. QED
  BY <1>6, <1>7

\* The core returns the class's word of the one register that a read reaches.
LEMMA SameData ==
  ASSUME WordsFit, BankHeld, Readable(core, decls), NEW bus \in BankBus, NEW live
  PROVE  ClassShows(bus, Decoded(bus), Hooked(core.providers), Hooked(core.observers), live).data
           = RtlShows(bus, live).data
<1> DEFINE rds == Hooked(core.providers)
           hit == {i \in DOMAIN core.regs : Sel(core, i, bus.a)}
           class == UNION {ReadVal(rds, id, val, live) : id \in Decoded(bus)}
           rtl == ReadData(core, flops, bus.a, Provided(live))
<1>1. /\ ClassShows(bus, Decoded(bus), rds, Hooked(core.observers), live).data
           = IF bus.k = "rd" THEN class ELSE {}
      /\ RtlShows(bus, live).data = IF bus.k = "rd" THEN rtl ELSE {}
  BY DEF ClassShows, RtlShows
<1>2. Fits(core, decls) /\ Mapped(core, decls)
  BY DEF BankHeld, Fits
<1>3. \A i \in DOMAIN core.regs :
        /\ Sel(core, i, bus.a) <=> bus.a = core.regs[i].off
        /\ RegId(core, i) \in DOMAIN decls /\ RegId(core, i)[1] = core.regs[i].off
        /\ RegId(core, i) \in Decoded(bus) <=> Sel(core, i, bus.a) /\ bus.k \in Access(decls[RegId(core, i)])
  BY <1>2, DecodedIsSelected
<1>4. \A id \in DOMAIN decls : "rd" \in Access(decls[id])
  BY DEF Readable, Access
<1>5. \A id \in Decoded(bus) : \E i \in hit : id = RegId(core, i)
  <2>1. \A id \in DOMAIN decls : \E i \in DOMAIN core.regs : id = RegId(core, i)
    BY <1>2 DEF Mapped
  <2>2. QED
    BY <1>3, <2>1 DEF Decoded
<1>6. \A i, j \in DOMAIN core.regs : i # j => core.regs[i].off # core.regs[j].off
  BY DEF Readable
<1>7. ASSUME bus.k = "rd"
      PROVE  class = rtl
  <2>1. CASE hit = {}
    <3>1. Decoded(bus) = {}
      BY <1>5, <2>1
    <3>2. rtl = {}
      BY <2>1 DEF ReadData
    <3>3. class = {}
      BY <3>1
    <3> HIDE DEF class, rtl
    <3>4. QED
      BY <3>2, <3>3
  <2>2. CASE hit # {}
    <3>1. PICK i \in DOMAIN core.regs : i \in hit
      BY <2>2
    <3> DEFINE id == RegId(core, i)
               d == decls[id]
               r == core.regs[i]
    <3>2. hit = {i}
      BY <1>3, <1>6, <3>1
    <3>3. Decoded(bus) = {id}
      BY <1>3, <1>4, <1>5, <1>7, <3>1, <3>2
    <3>4. class = ReadVal(rds, id, val, live)
      BY <3>3
    <3>5. Min(hit) = i
      <4>1. i \in Nat
        BY <1>2 DEF Mapped
      <4> HIDE DEF hit
      <4>2. QED
        BY <3>2, <4>1 DEF Min
    <3>6. rtl = IF Reflects(core, r) THEN Provided(live)[r.off] ELSE Word(core, i, flops)
      BY <2>2, <3>5 DEF ReadData
    <3>7. d.reset \subseteq d.sw \cup d.hw /\ (r.off \in core.providers => Reflects(core, r) \/ d.hw = {})
      BY <1>3 DEF Readable
    <3>8. id \in rds <=> r.off \in core.providers
      BY <1>3 DEF Hooked
    <3>9. /\ Reflects(core, r) => Word(core, i, flops) \ d.hw = val[id] \ d.hw
          /\ ~Reflects(core, r) => Word(core, i, flops) = val[id]
      BY <3>7, WordIsValue
    <3>10. CASE Reflects(core, r)
      <4>1. r.off \in core.providers
        BY <3>10 DEF Reflects
      <4>2. (CHOOSE j \in DOMAIN core.regs : core.regs[j].off = r.off) = i
        BY <1>6
      <4>3. Provided(live)[r.off] = OnRead(d, Word(core, i, flops), live)
        BY <4>1, <4>2 DEF Provided
      <4>4. class = OnRead(d, val[id], live)
        BY <3>4, <3>8, <4>1 DEF ReadVal
      <4>5. OnRead(d, Word(core, i, flops), live) = OnRead(d, val[id], live)
        BY <3>9, <3>10 DEF OnRead
      <4> HIDE DEF class, rtl, id, d, r
      <4>6. QED
        BY <3>6, <3>10, <4>3, <4>4, <4>5
    <3>11. CASE ~Reflects(core, r)
      <4>1. class = val[id]
        <5>1. CASE id \in rds
          <6>1. d.hw = {}
            BY <3>7, <3>8, <3>11, <5>1
          <6>2. OnRead(d, val[id], live) = val[id]
            BY <6>1 DEF OnRead
          <6>3. QED
            BY <3>4, <5>1, <6>2 DEF ReadVal
        <5>2. CASE id \notin rds
          BY <3>4, <5>2 DEF ReadVal
        <5>3. QED
          BY <5>1, <5>2
      <4> HIDE DEF class, rtl, id, d, r
      <4>2. QED
        BY <3>6, <3>9, <3>11, <4>1
    <3>12. QED
      BY <3>10, <3>11
  <2>3. QED
    BY <2>1, <2>2
<1> HIDE DEF class, rtl, rds, hit
<1>8. QED
  BY <1>1, <1>7 DEF rds

------------------------------------------------------------------------------
(* Every step. *)

LEMMA CycleHeld ==
  ASSUME WordsFit, BankHeld, NEW bus \in BankBus, NEW ups, WholeFields(ups), DOMAIN ups \subseteq DOMAIN decls,
         NEW live, BankCycle(bus, ups, live)
  PROVE  BankInv'
<1>1. core' = core /\ decls' = decls
  BY DEF BankCycle
<1>2. /\ val' = AfterHw(AfterBus(val, Decoded(bus), bus), ups)
      /\ flops' = NextFields(core, flops, bus, HwDrives(core, ups))
      /\ seen'.class = ClassShows(bus, Decoded(bus), Hooked(core.providers), Hooked(core.observers), live)
      /\ seen'.rtl = RtlShows(bus, live)
  BY DEF BankCycle
<1>3. Fits(core, decls) /\ DOMAIN val = DOMAIN decls
  BY DEF BankHeld
<1>4. DOMAIN val' = DOMAIN decls'
  BY <1>1, <1>2, <1>3 DEF AfterHw, AfterBus
<1>5. DOMAIN flops' = Signals(core)
  BY <1>2 DEF NextFields
<1>6. FlopsHeld'
  <2>1. \A x \in Flops(core) : flops'[Sig(core, x)] = val'[RegId(core, x.i)] \cap x.f.bits
    BY <1>2, FlopsStayHeld
  <2>2. QED
    BY <1>1, <2>1 DEF FlopsHeld
<1>7. RestHeld'
  <2>1. \A id \in DOMAIN decls :
          /\ val'[id] \subseteq Cover(decls[id].fields)
          /\ val'[id] \ (decls[id].sw \cup decls[id].hw) = decls[id].reset \ (decls[id].sw \cup decls[id].hw)
    BY <1>2, RestStaysHeld
  <2>2. QED
    BY <1>1, <2>1 DEF RestHeld
<1>8. SameShown'
  <2>1. seen'.class.observed = seen'.rtl.observed
    BY <1>2, <1>3, SameObserved
  <2>2. Readable(core, decls) => seen'.class.data = seen'.rtl.data
    BY <1>2, SameData
  <2>3. QED
    BY <1>1, <2>1, <2>2 DEF SameShown
<1>9. QED
  BY <1>1, <1>3, <1>4, <1>5, <1>6, <1>7, <1>8 DEF BankInv, BankHeld

LEMMA NextHeld ==
  ASSUME WordsFit, BankInv, [BankNext]_bank
  PROVE  BankInv'
<1>1. CASE BankNext
  <2>1. PICK bus \in BankBus : \E ups \in Updates, live \in SUBSET Bits : BankCycle(bus, ups, live)
    BY <1>1 DEF BankNext
  <2>2. PICK ups \in Updates : \E live \in SUBSET Bits : BankCycle(bus, ups, live)
    BY <2>1
  <2>3. PICK live \in SUBSET Bits : BankCycle(bus, ups, live)
    BY <2>2
  <2>4. WholeFields(ups) /\ DOMAIN ups \subseteq DOMAIN decls
    BY DEF Updates
  <2>5. QED
    BY <2>3, <2>4, CycleHeld DEF BankInv
<1>2. CASE UNCHANGED bank
  BY <1>2 DEF bank, BankInv, BankHeld, FlopsHeld, RestHeld, SameShown
<1>3. QED
  BY <1>1, <1>2

------------------------------------------------------------------------------
(* Theorems. *)

LEMMA BankInvariant ==
  ASSUME WordsFit
  PROVE  BankSpec => []BankInv
<1>1. BankInit => BankInv
  BY InitHeld
<1>2. BankInv /\ [BankNext]_bank => BankInv'
  BY NextHeld
<1>3. QED
  BY <1>1, <1>2, PTL DEF BankSpec

\* A core that fits its registers' declarations holds their class values after
\* every cycle (emit/regblock.py: the always_ff of a field, and the level
\* outputs of a register-block child).
THEOREM CoreHoldsTheValues ==
  ASSUME WordsFit
  PROVE  BankSpec => []SameValues
<1>1. BankInv => SameValues
  BY HeldValues DEF BankInv
<1>2. QED
  BY <1>1, BankInvariant, PTL

\* The observers of a register hear of the same writes on both sides, and a core
\* that can be read returns what the class's read does, the providers' bits in it
\* (emit/regblock.py: the observers' pulses and the read mux).
THEOREM CoreShowsTheValues ==
  ASSUME WordsFit
  PROVE  BankSpec => []SameShown
<1>1. BankInv => SameShown
  BY DEF BankInv
<1>2. QED
  BY <1>1, BankInvariant, PTL

==============================================================================
