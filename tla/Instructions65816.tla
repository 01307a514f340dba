------------------------- MODULE Instructions65816 -------------------------
(***************************************************************************)
(* What the instructions of em16's processors do (em16/include/emu816.h).  *)
(* Every instruction is a function of the machine s, a record of the       *)
(* registers and the memory, and of its operand d; p is the set of the     *)
(* flags that are set.                                                     *)
(*                                                                         *)
(* A cell of memory has two readings, v as a number and f as flags.  They  *)
(* determine each other when a byte has eight bits, as it has in the code; *)
(* a byte too narrow for the eight flags keeps the flags pushed into it.   *)
(***************************************************************************)
EXTENDS ALU65816, Sequences

CONSTANTS
    Space,       \* bytes of memory, MEM_MASK + 1
    sp_page,     \* the emulation mode's stack page, setStackPage
    Vector       \* where interrupts and the L28's JSB go

ASSUME MemoryAssumption ==
    /\ Space \in Nat \ {0} /\ sp_page \in Word /\ sp_page % ByteSize = 0
    /\ Vector \in [{"BRK", "COP", "IRQ", "IRQ0", "JSB"} -> Word]

FlagNo == [c |-> 0, z |-> 1, i |-> 2, d |-> 3, x |-> 4, m |-> 5, v |-> 6, n |-> 7]
Flags == DOMAIN FlagNo

DataCell(v) == [v |-> v, f |-> {k \in Flags : Bit(v, FlagNo[k]) = 1}]
FlagCell(p) ==
    LET bit(k, value) == IF k \in p THEN value ELSE 0
    IN  [v |-> (bit("c", 1) + bit("z", 2) + bit("i", 4) + bit("d", 8)
                + bit("x", 16) + bit("m", 32) + bit("v", 64) + bit("n", 128)) % ByteSize,
         f |-> p]

-----------------------------------------------------------------------------
(* Widths, flags and memory.                                               *)

M8(s) == s.e \/ "m" \in s.p
X8(s) == s.e \/ "x" \in s.p
SizeM(s) == IF M8(s) THEN ByteSize ELSE WordSize
SizeX(s) == IF X8(s) THEN ByteSize ELSE WordSize

\* setn, setz, setc, setv, seti, setd: flag k takes the value of the condition.
Set(s, k, on) == [s EXCEPT !.p = IF on THEN s.p \cup {k} ELSE s.p \ {k}]
NZ(s, v, N) == Set(Set(s, "n", Negative(v, N)), "z", v = 0)
Carry(s) == IF "c" \in s.p THEN 1 ELSE 0

getByte(s, ea) == s.mem[ea % Space].v
getWord(s, ea) == join(getByte(s, ea), getByte(s, ea + 1))
getAddr(s, ea) == getWord(s, ea) + WordSize * getByte(s, ea + 2)
Get(s, ea, N) == IF N = ByteSize THEN getByte(s, ea) ELSE getWord(s, ea)

setByte(s, ea, v) == [s EXCEPT !.mem[ea % Space] = DataCell(v)]
setWord(s, ea, w) == setByte(setByte(s, ea, lo(w)), ea + 1, hi(w))
Put(s, ea, v, N) == IF N = ByteSize THEN setByte(s, ea, v) ELSE setWord(s, ea, v)

\* A register as its width shows it, and a write that keeps the other half.
Part(w, N) == w % N
\* A mutant: a byte written to a register clears the other half.
MergeClears(w, v, N) == v
Merge(w, v, N) == IF N = ByteSize THEN join(v, hi(w)) ELSE v

-----------------------------------------------------------------------------
(* The stack is in bank 0; in emulation mode its pointer stays in its page. *)

Down(s) == IF s.e THEN join((lo(s.sp) - 1) % ByteSize, hi(s.sp)) ELSE (s.sp - 1) % WordSize
\* A mutant: a pull in emulation mode leaves the page.
UpUnwrapped(s) == (s.sp + 1) % WordSize
Up(s)   == IF s.e THEN join((lo(s.sp) + 1) % ByteSize, hi(s.sp)) ELSE (s.sp + 1) % WordSize

PushCell(s, cell) == [s EXCEPT !.mem[s.sp % Space] = cell, !.sp = Down(s)]
PushByte(s, v) == PushCell(s, DataCell(v))
PushWord(s, w) == PushByte(PushByte(s, hi(w)), lo(w))
Push(s, v, N) == IF N = ByteSize THEN PushByte(s, v) ELSE PushWord(s, v)

Popped(s, n) == IF n = 1 THEN [s EXCEPT !.sp = Up(s)]
                         ELSE LET t == [s EXCEPT !.sp = Up(s)] IN [t EXCEPT !.sp = Up(t)]
TopCell(s) == s.mem[Up(s) % Space]
TopWord(s) == join(TopCell(s).v, TopCell(Popped(s, 1)).v)
Top(s, N) == IF N = ByteSize THEN TopCell(s).v ELSE TopWord(s)
Pop(s, N) == Popped(s, IF N = ByteSize THEN 1 ELSE 2)

-----------------------------------------------------------------------------
(* Addressing modes: the effective address for the operand o.              *)

bank(b) == b * WordSize
\* bank(b) | sum where sum may be a word too large: the carry is or-ed in.
OrBank(b, sum) ==
    bank(IF sum >= WordSize /\ b % 2 = 0 THEN b + 1 ELSE b) + (sum % WordSize)

Direct(s, o) == (s.dp + o) % WordSize

Absolute(s, mode, o) ==
    CASE mode = "absl" -> bank(s.dbr) + o
      [] mode = "absx" -> bank(s.dbr) + o + Part(s.x, SizeX(s))
      [] mode = "absy" -> bank(s.dbr) + o + Part(s.y, SizeX(s))
      [] mode = "absi" -> getWord(s, o)
      [] mode = "abxi" -> bank(s.pbr) + getWord(s, bank(s.pbr) + o + s.x)
      [] mode = "alng" -> o
      [] mode = "alnx" -> o + s.x
      [] mode = "abil" -> getAddr(s, o)

DirectPage(s, mode, o) ==
    CASE mode = "dpag" -> Direct(s, o)
      [] mode = "dpgx" -> Direct(s, (o + lo(s.x)) % ByteSize)
      [] mode = "dpgy" -> Direct(s, (o + lo(s.y)) % ByteSize)
      [] mode = "dpgi" -> bank(s.dbr) + getWord(s, Direct(s, o))
      [] mode = "dpix" -> bank(s.dbr) + getWord(s, Direct(s, o + s.x))
      [] mode = "dpiy" -> OrBank(s.dbr, getWord(s, s.dp + o) + s.y)
      [] mode = "diix" -> OrBank(s.dbr, getWord(s, s.dp + o) + s.x)
      [] mode = "dpil" -> getAddr(s, Direct(s, o))
      [] mode = "dily" -> getAddr(s, Direct(s, o)) + s.y

StackRelative(s, mode, o) ==
    LET inPage == join((lo(s.sp) + o) % ByteSize, hi(s.sp))
    IN  CASE mode = "srel" -> IF s.e THEN inPage ELSE (s.sp + o) % WordSize
          [] mode = "sriy" -> bank(s.dbr) + ((getWord(s, IF s.e THEN inPage ELSE s.sp + o)
                                              + s.y) % WordSize)

\* Relative modes count from the byte after the operand.
Relative(s, o, N) == (s.pc + Signed(o, N)) % WordSize

OneByte == {"dpag", "dpgx", "dpgy", "dpgi", "dpix", "dpiy", "diix", "dpil", "dily",
            "srel", "sriy"}
TwoBytes == {"absl", "absx", "absy", "absi", "abxi", "abil"}
ThreeBytes == {"alng", "alnx"}
Length(mode) == IF mode \in OneByte THEN 1 ELSE IF mode \in TwoBytes THEN 2 ELSE 3
EA(s, mode, o) == IF mode \in {"srel", "sriy"} THEN StackRelative(s, mode, o)
                  ELSE IF mode \in OneByte THEN DirectPage(s, mode, o)
                  ELSE Absolute(s, mode, o)

-----------------------------------------------------------------------------
(* Loads, stores and arithmetic.  The operand d is an address or, for an   *)
(* immediate mode, the value itself.                                       *)

Data(s, d, N) == IF d.imm THEN d.at ELSE Get(s, d.at, N)
DataM(s, d) == Data(s, d, SizeM(s))
DataX(s, d) == Data(s, d, SizeX(s))
A(s) == Part(s.a, SizeM(s))
X(s) == Part(s.x, SizeX(s))
Y(s) == Part(s.y, SizeX(s))

\* A keeps its high byte when it is written as a byte, X and Y lose theirs.
SetA(s, v) == NZ([s EXCEPT !.a = Merge(s.a, v, SizeM(s))], v, SizeM(s))
SetX(s, v) == NZ([s EXCEPT !.x = v], Part(v, SizeX(s)), SizeX(s))
SetY(s, v) == NZ([s EXCEPT !.y = v], Part(v, SizeX(s)), SizeX(s))
StepX(s, v) == NZ([s EXCEPT !.x = Merge(s.x, v, SizeX(s))], v, SizeX(s))
StepY(s, v) == NZ([s EXCEPT !.y = Merge(s.y, v, SizeX(s))], v, SizeX(s))

op_lda(s, d) == SetA(s, DataM(s, d))
op_ldx(s, d) == SetX(s, DataX(s, d))
op_ldy(s, d) == SetY(s, DataX(s, d))
op_sta(s, d) == Put(s, d.at, A(s), SizeM(s))
op_stx(s, d) == Put(s, d.at, X(s), SizeX(s))
op_sty(s, d) == Put(s, d.at, Y(s), SizeX(s))
op_stz(s, d) == Put(s, d.at, 0, SizeM(s))

op_and(s, d) == SetA(s, And(A(s), DataM(s, d), SizeM(s)))
op_ora(s, d) == SetA(s, Or(A(s), DataM(s, d), SizeM(s)))
op_eor(s, d) == SetA(s, Eor(A(s), DataM(s, d), SizeM(s)))
Summed(s, r) == SetA(Set(Set(s, "c", r.c = 1), "v", r.o), r.v)
op_adc(s, d) == Summed(s, AddWithCarry(A(s), DataM(s, d), Carry(s), "d" \in s.p, SizeM(s)))
op_sbc(s, d) == Summed(s, SubtractWithBorrow(A(s), DataM(s, d), Carry(s), "d" \in s.p, SizeM(s)))

Compared(s, r, N) == Set(NZ(s, r.v, N), "c", r.c = 1)
op_cmp(s, d) == Compared(s, Compare(A(s), DataM(s, d), SizeM(s)), SizeM(s))
op_cpx(s, d) == Compared(s, CompareIndex(X(s), DataX(s, d), SizeX(s)), SizeX(s))
op_cpy(s, d) == Compared(s, CompareIndex(Y(s), DataX(s, d), SizeX(s)), SizeX(s))
op_biti(s, d) == Set(s, "z", And(A(s), DataM(s, d), SizeM(s)) = 0)
op_bit(s, d) ==
    LET N == SizeM(s)  v == DataM(s, d)
    IN  Set(Set(op_biti(s, d), "n", Negative(v, N)), "v", Negative((2 * v) % N, N))

\* Read, modify, write.
Modified(s, d, v) == Put(NZ(s, v, SizeM(s)), d.at, v, SizeM(s))
Shifted(s, d, r) == Modified(Set(s, "c", r.c = 1), d, r.v)
op_inc(s, d) == Modified(s, d, (DataM(s, d) + 1) % SizeM(s))
op_dec(s, d) == Modified(s, d, (DataM(s, d) - 1) % SizeM(s))
op_asl(s, d) == Shifted(s, d, ShiftLeft(DataM(s, d), SizeM(s)))
op_lsr(s, d) == Shifted(s, d, ShiftRight(DataM(s, d), SizeM(s)))
op_rol(s, d) == Shifted(s, d, RotateLeft(DataM(s, d), Carry(s), SizeM(s)))
op_ror(s, d) == Shifted(s, d, RotateRight(DataM(s, d), Carry(s), SizeM(s)))
op_trb(s, d) == Put(op_biti(s, d), d.at, And(DataM(s, d), SizeM(s) - 1 - A(s), SizeM(s)), SizeM(s))
op_tsb(s, d) == Put(op_biti(s, d), d.at, Or(DataM(s, d), A(s), SizeM(s)), SizeM(s))

ShiftedA(s, r) == SetA(Set(s, "c", r.c = 1), r.v)
op_asla(s) == ShiftedA(s, ShiftLeft(A(s), SizeM(s)))
op_lsra(s) == ShiftedA(s, ShiftRight(A(s), SizeM(s)))
op_rola(s) == ShiftedA(s, RotateLeft(A(s), Carry(s), SizeM(s)))
op_rora(s) == ShiftedA(s, RotateRight(A(s), Carry(s), SizeM(s)))
op_inca(s) == SetA(s, (A(s) + 1) % SizeM(s))
op_deca(s) == SetA(s, (A(s) - 1) % SizeM(s))
op_inx(s) == StepX(s, (X(s) + 1) % SizeX(s))
op_iny(s) == StepY(s, (Y(s) + 1) % SizeX(s))
op_dex(s) == StepX(s, (X(s) - 1) % SizeX(s))
op_dey(s) == StepY(s, (Y(s) - 1) % SizeX(s))

\* The bits of a byte on the direct page (Rockwell).
op_rmb(s, ea, k) == setByte(s, ea, And(getByte(s, ea), ByteSize - 1 - 2 ^ k, ByteSize))
op_smb(s, ea, k) == setByte(s, ea, Or(getByte(s, ea), 2 ^ k, ByteSize))

\* A block move copies one byte and runs again until A has passed zero.
Moved(s, d, by) ==
    LET dst == lo(d.at)  src == hi(d.at)
        t == [setByte(s, bank(dst) + s.y, getByte(s, bank(src) + s.x))
                 EXCEPT !.dbr = dst, !.x = (s.x + by) % WordSize, !.y = (s.y + by) % WordSize,
                        !.a = (s.a - 1) % WordSize]
    IN  IF t.a = WordSize - 1 THEN t ELSE [t EXCEPT !.pc = (t.pc - 3) % WordSize]
op_mvn(s, d) == Moved(s, d, 1)
op_mvp(s, d) == Moved(s, d, -1)

-----------------------------------------------------------------------------
(* Transfers between registers.                                            *)

op_tax(s) == SetX(s, Part(s.a, SizeX(s)))
op_tay(s) == SetY(s, Part(s.a, SizeX(s)))
op_txy(s) == SetY(s, s.x)
op_tyx(s) == SetX(s, s.y)
op_txa(s) == SetA(s, Part(s.x, SizeM(s)))
op_tya(s) == SetA(s, Part(s.y, SizeM(s)))
op_tsx(s) == StepX(s, Part(s.sp, SizeX(s)))
op_txs(s) == [s EXCEPT !.sp = IF X8(s) THEN sp_page + lo(s.x) ELSE s.x]
op_tcs(s) == [s EXCEPT !.sp = IF s.e THEN sp_page + lo(s.a) ELSE s.a]
op_tcd(s) == [s EXCEPT !.dp = s.a]
\* TDC and TSC write both halves of A whatever its width.
op_tdc(s) == NZ([s EXCEPT !.a = s.dp], Part(s.dp, SizeM(s)), SizeM(s))
op_tsc(s) == NZ([s EXCEPT !.a = s.sp], Part(s.sp, SizeM(s)), SizeM(s))
op_xba(s) == NZ([s EXCEPT !.a = swap(s.a)], hi(s.a), ByteSize)

\* A mutant: SEP and PLP leave the index registers as they are.
NotNarrowed(s) == s
\* Narrow index registers lose their high bytes; only SEP and PLP see to it.
Narrowed(s) == IF "x" \in s.p THEN [s EXCEPT !.x = lo(s.x), !.y = lo(s.y)] ELSE s
Forced(s, p) == IF s.e THEN p \cup {"m", "x"} ELSE p
op_rep(s, mask) == [s EXCEPT !.p = Forced(s, s.p \ mask)]
op_sep(s, mask) == Narrowed([s EXCEPT !.p = Forced(s, s.p \cup mask)])
op_xce(s) ==
    LET t == Set([s EXCEPT !.e = "c" \in s.p], "c", s.e)
    IN  IF t.e THEN [t EXCEPT !.p = t.p \cup {"m", "x"}, !.sp = sp_page + lo(t.sp)] ELSE t

-----------------------------------------------------------------------------
(* Pushes and pulls.                                                       *)

op_pha(s) == Push(s, A(s), SizeM(s))
op_phx(s) == Push(s, X(s), SizeX(s))
op_phy(s) == Push(s, Y(s), SizeX(s))
op_phb(s) == PushByte(s, s.dbr)
op_phd(s) == PushWord(s, s.dp)
op_phk(s) == PushByte(s, s.pbr)
op_php(s) == PushCell(s, FlagCell(s.p))
op_pea(s, d) == PushWord(s, d.at)
\* The operand's word is taken for an address once more.
op_pei(s, d) == PushWord(s, getWord(s, getWord(s, d.at)))
op_per(s, d) == PushWord(s, Relative(s, d.at, WordSize))

op_pla(s) == SetA(Pop(s, SizeM(s)), Top(s, SizeM(s)))
op_plx(s) == SetX(Pop(s, SizeX(s)), Top(s, SizeX(s)))
op_ply(s) == SetY(Pop(s, SizeX(s)), Top(s, SizeX(s)))
\* PLK, too, pulls into the data bank.
op_plb(s) == NZ([Popped(s, 1) EXCEPT !.dbr = TopCell(s).v], TopCell(s).v, ByteSize)
op_pld(s) == NZ([Popped(s, 2) EXCEPT !.dp = TopWord(s)], TopWord(s), WordSize)
op_plp(s) ==
    LET t == [Popped(s, 1) EXCEPT !.p = Forced(s, TopCell(s).f)]
    IN  IF s.e THEN t ELSE Narrowed(t)

-----------------------------------------------------------------------------
(* Jumps, calls, returns and interrupts.                                   *)

\* JMP takes the bank from its address, the data bank's for an absolute one.
op_jmp(s, d) == [s EXCEPT !.pbr = (d.at \div WordSize) % ByteSize, !.pc = d.at % WordSize]
op_jsr(s, d) == [PushWord(s, (s.pc - 1) % WordSize) EXCEPT !.pc = d.at % WordSize]
op_jsl(s, d) == op_jmp(PushWord(PushByte(s, s.pbr), (s.pc - 1) % WordSize), d)
\* A mutant: the return address is taken as it was pushed.
op_rtsShort(s) == [Popped(s, 2) EXCEPT !.pc = TopWord(s)]
op_rts(s) == [Popped(s, 2) EXCEPT !.pc = (TopWord(s) + 1) % WordSize]
op_rtl(s) == LET t == op_rts(s) IN [Popped(t, 1) EXCEPT !.pbr = TopCell(t).v]

\* The frame of an interrupt: the bank in native mode, the address, the flags.
Interrupted(s, withBank, p, to) ==
    LET t == IF withBank THEN PushByte(s, s.pbr) ELSE s
    IN  [PushCell(PushWord(t, s.pc), FlagCell(p))
            EXCEPT !.p = (s.p \cup {"i"}) \ {"d"}, !.pbr = 0, !.pc = to]
op_cop(s) == Interrupted(s, ~s.e, s.p, Vector["COP"])
Break(s) == Interrupted(s, ~s.e, IF s.e THEN s.p \cup {"x"} ELSE s.p, Vector["BRK"])
\* A mutant: RTI pulls the bank in either mode.
op_rtiLong(s) ==
    LET t == [Popped(s, 1) EXCEPT !.p = TopCell(s).f]
        u == [Popped(t, 2) EXCEPT !.pc = TopWord(t)]
    IN  [Popped(u, 1) EXCEPT !.pbr = TopCell(u).v]
op_rti(s) ==
    LET t == [Popped(s, 1) EXCEPT !.p = TopCell(s).f]
        u == [Popped(t, 2) EXCEPT !.pc = TopWord(t)]
    IN  IF s.e THEN u ELSE [Popped(u, 1) EXCEPT !.pbr = TopCell(u).v]

\* WAI and STP run again until an interrupt has been taken.
op_wai(s) == IF s.interrupted THEN [s EXCEPT !.interrupted = FALSE]
             ELSE [s EXCEPT !.pc = (s.pc - 1) % WordSize]
\* WDM 255 stops, WDM 2 reads a character from the host's input, if there is one.
op_wdm(s, d) == IF d.at = ByteSize - 1 THEN [s EXCEPT !.stopped = TRUE] ELSE s
op_wdm2(s, typed) == [s EXCEPT !.a = Merge(s.a, typed, ByteSize)]

-----------------------------------------------------------------------------
(* The L28's own instructions: W = wh:wl, the pointer i into threaded code. *)

W(s) == join(s.wl, s.wh)
SetB(s, v) == NZ([s EXCEPT !.a = Merge(s.a, v, ByteSize)], v, ByteSize)
op_mpy(s) ==
    LET product == Multiply(lo(s.a), lo(s.y))
    IN  NZ([s EXCEPT !.a = Merge(s.a, hi(product), ByteSize),
                     !.y = Merge(s.y, lo(product), ByteSize)], product, WordSize)
op_mpa(s) ==
    LET r == MultiplyAdd(W(s), lo(s.a), lo(s.y))
    IN  [Set(s, "v", "v" \in s.p \/ r.o) EXCEPT !.wl = lo(r.v), !.wh = hi(r.v),
                                                !.y = Merge(s.y, 0, ByteSize)]
op_rnd(s) == SetB(s, Round(W(s)))
op_neg(s) == SetB(s, Negate(lo(s.a)))
op_lab(s) == SetB(s, Magnitude(lo(s.a)))
op_asra(s) == ShiftedA(s, ShiftRightSigned(A(s), SizeM(s)))
op_clw(s) == [Set(s, "v", FALSE) EXCEPT !.wl = 0, !.wh = 0]
op_taw(s) == [s EXCEPT !.wl = 0, !.wh = lo(s.a)]
op_twa(s) == SetB(s, s.wh)
op_add(s, d) == Summed(s, AddWithoutCarry(A(s), DataM(s, d), SizeM(s)))
op_exc(s, d) == SetB(setByte(s, d.at, lo(s.a)), getByte(s, d.at))

op_tip(s) == [s EXCEPT !.pc = s.i]
op_jpi(s, d) == [s EXCEPT !.i = s.pc, !.pc = getWord(s, d.at)]
op_nxt(s) == [s EXCEPT !.i = (s.i + 2) % WordSize, !.pc = getWord(s, s.i)]
op_lii(s) == [s EXCEPT !.i = getWord(s, s.i)]
op_ini(s) == [s EXCEPT !.i = (s.i + 1) % WordSize]
op_lai(s) == SetB(s, getByte(s, s.i))
op_lan(s) == op_ini(op_lai(s))

op_psh(s) == PushByte(PushByte(PushByte(s, lo(s.a)), lo(s.x)), lo(s.y))
\* A mutant: Y and X are pulled in the order PSH pushed them.
op_pulSwapped(s) ==
    LET t == [Popped(s, 1) EXCEPT !.x = Merge(s.x, TopCell(s).v, ByteSize)]
        u == [Popped(t, 1) EXCEPT !.y = Merge(s.y, TopCell(t).v, ByteSize)]
    IN  SetB(Popped(u, 1), TopCell(u).v)
op_pul(s) ==
    LET t == [Popped(s, 1) EXCEPT !.y = Merge(s.y, TopCell(s).v, ByteSize)]
        u == [Popped(t, 1) EXCEPT !.x = Merge(s.x, TopCell(t).v, ByteSize)]
    IN  SetB(Popped(u, 1), TopCell(u).v)
op_phw(s) == PushByte(PushByte(s, s.wh), s.wl)
op_plw(s) == [Popped(s, 2) EXCEPT !.wl = TopCell(s).v, !.wh = TopCell(Popped(s, 1)).v]
op_phi(s) == PushWord(s, s.i)
op_pli(s) == [Popped(s, 2) EXCEPT !.i = TopWord(s)]
op_pia(s) == LET t == op_lan(op_pli(s)) IN [t EXCEPT !.x = Merge(s.x, lo(t.a), ByteSize)]

\* Its calls push the address itself, its BRK has no operand.
op_jsr_l28(s, d) == [PushWord(s, s.pc) EXCEPT !.pc = d.at % WordSize]
op_jsb(s) == op_jsr_l28(s, [imm |-> FALSE, at |-> Vector["JSB"]])
op_rts_l28(s) == [Popped(s, 2) EXCEPT !.pc = TopWord(s)]
op_brk_l28(s) == [Interrupted(s, FALSE, s.p \cup {"x"}, Vector["IRQ"]) EXCEPT !.pbr = s.pbr]

\* A mask applied to, or tested in, a byte of memory.
op_rba(s, ea, mask) == setByte(s, ea, And(getByte(s, ea), ByteSize - 1 - mask, ByteSize))
op_sba(s, ea, mask) == setByte(s, ea, Or(getByte(s, ea), mask, ByteSize))
=============================================================================
