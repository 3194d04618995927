------------------------------ MODULE Operators -----------------------------
(***************************************************************************)
(* What the integer operators compute: evaluated by the interpreter        *)
(* (Interpreter.cpp, evalBinaryOp and others) and as compiled code         *)
(* (LLVMCodegen.cpp, lowerExpr).  A program assigns to variables of        *)
(* declared types, one statement a step, and both ways of running it are   *)
(* followed side by side.                                                  *)
(*                                                                         *)
(* The two are built differently.  The interpreter keeps with each value   *)
(* the kind it was computed with and ignores what its variable was         *)
(* declared as; the generated code forgets how a value was made, keeps as  *)
(* many bits as its variable has, and takes the sign from declared types.  *)
(*                                                                         *)
(* Words have Width bits instead of 64, those of the narrow types Narrow   *)
(* bits instead of 8; a word is the number of its bits, read unsigned.     *)
(* The variables are locals, initialised to 0; operands are variables,     *)
(* because every register or value of an expression can be stored in one.  *)
(* Signed overflow of the interpreter's C++ wraps, as it does when built.  *)
(***************************************************************************)
EXTENDS Integers, Bitwise

CONSTANTS
  Width, Narrow,
  Names,              \* the variables
  DeclTypes,          \* the types they may be declared with
  Unaries             \* the unary operators programs use

I64 == [bits |-> Width, signed |-> TRUE]
U64 == [bits |-> Width, signed |-> FALSE]
I8 == [bits |-> Narrow, signed |-> TRUE]
U8 == [bits |-> Narrow, signed |-> FALSE]

VARIABLES
  type,     \* what each variable is declared as
  vals,     \* the interpreter's values: their kind and their word
  mem,      \* the code's variables: words of the bits they are declared with
  parted    \* history: the two need not agree from here on

vars == <<type, vals, mem, parted>>

Arithmetic == {"+", "-", "*", "/", "%", "&", "|", "^", "<<", ">>"}
Compares == {"==", "!=", "<", "<="}
Shifts == {"<<", ">>"}

\* The operators whose result depends on whether words are read as signed.
SignSensitive == {"/", "%", ">>", "<", "<="}

-----------------------------------------------------------------------------
Cut(n, bits) == n % 2^bits
AsSigned(w, bits) == IF w >= 2^(bits - 1) THEN w - 2^bits ELSE w
SExt(w, from, to) == Cut(AsSigned(w, from), to)
Negative(w) == AsSigned(w, Width) < 0

\* Division of C++ and of LLVM: towards zero.
Quotient(l, r) ==
  LET Abs(n) == IF n < 0 THEN -n ELSE n
      q == Abs(l) \div Abs(r)
  IN  IF (l < 0) = (r < 0) THEN q ELSE -q

\* The operator itself, which both take from the machine.
Compute(op, lw, rw, bits, signed) ==
  LET l == IF signed THEN AsSigned(lw, bits) ELSE lw
      r == IF signed THEN AsSigned(rw, bits) ELSE rw
      Truth(b) == IF b THEN 1 ELSE 0
  IN  CASE op = "+" -> Cut(l + r, bits)
        [] op = "-" -> Cut(l - r, bits)
        [] op = "*" -> Cut(l * r, bits)
        [] op = "/" -> Cut(Quotient(l, r), bits)
        [] op = "%" -> Cut(l - r * Quotient(l, r), bits)
        [] op = "&" -> lw & rw
        [] op = "|" -> lw | rw
        [] op = "^" -> lw ^^ rw
        [] op = "<<" -> Cut(lw * 2^rw, bits)
        [] op = ">>" -> Cut(l \div 2^rw, bits)
        [] op = "==" -> Truth(l = r)
        [] op = "!=" -> Truth(l # r)
        [] op = "<" -> Truth(l < r)
        [] op = "<=" -> Truth(l <= r)

-----------------------------------------------------------------------------
(* The interpreter.                                                        *)

Value(kind, word) == [kind |-> kind, word |-> word]
Unsigned(l, r) == "UInt" \in {l.kind, r.kind}
Bool(b) == Value("Bool", IF b THEN 1 ELSE 0)
True(v) == v.word # 0

\* What the guards leave to the operator: a divisor and an amount in range.
Guarded(op, r, unsigned) ==
  LET amount == IF unsigned THEN r.word ELSE AsSigned(r.word, Width)
  IN  /\ op \in {"/", "%"} => r.word # 0
      /\ op \in Shifts => amount \in 0 .. Width - 1

\* evalBinaryOp and evalCmpOp: unsigned as soon as one value is.
IBinary(op, l, r) ==
  LET word == IF Guarded(op, r, Unsigned(l, r))
              THEN Compute(op, l.word, r.word, Width, ~Unsigned(l, r))
              ELSE 0
  IN  CASE op \in Compares -> Value("Bool", word)
        [] op \notin Compares /\ Unsigned(l, r) -> Value("UInt", word)
        [] OTHER -> Value("Int", word)

\* The compound assignments: signed whatever the kinds, but for >>=.
ICompound(op, l, r) ==
  LET logical == op = ">>"
  IN  Value(IF logical THEN "UInt" ELSE "Int",
            IF Guarded(op, r, logical)
            THEN Compute(op, l.word, r.word, Width, ~logical)
            ELSE 0)

IUnary(op, v) ==
  CASE op = "-" -> Value("Int", Cut(-v.word, Width))
    [] op = "~" -> Value(IF v.kind = "UInt" THEN "UInt" ELSE "Int",
                         2^Width - 1 - v.word)
    [] op = "!" -> Bool(~True(v))

-----------------------------------------------------------------------------
(* The generated code.  A register has bits, and the sign of the type that *)
(* Sema gave its expression.                                               *)

Register(bits, signed, word) == [bits |-> bits, signed |-> signed, word |-> word]
Load(x) == Register(type[x].bits, type[x].signed, mem[x])

\* MUTANT of Stored: extended by zeros.
StoredByZeros(reg, t) == Cut(reg.word, t.bits)

\* A register of other bits than its variable is cut, or extended by its sign.
Stored(reg, t) ==
  IF reg.bits < t.bits THEN SExt(reg.word, reg.bits, t.bits)
  ELSE Cut(reg.word, t.bits)

WiderOf(l, r) == IF l.bits > r.bits THEN l.bits ELSE r.bits
EitherSigned(l, r) == l.signed \/ r.signed

CBinary(op, l, r) ==
  LET bits == WiderOf(l, r)
  IN  Register(IF op \in Compares THEN Width ELSE bits,
               EitherSigned(l, r),
               Compute(op, SExt(l.word, l.bits, bits), SExt(r.word, r.bits, bits),
                       bits, EitherSigned(l, r)))

\* Loaded, computed and stored with the bits of the variable, and signed.
CCompound(op, l, r) == Compute(op, l.word, Stored(r, l), l.bits, TRUE)

CUnary(op, r) ==
  CASE op = "-" -> Register(r.bits, r.signed, Cut(-r.word, r.bits))
    [] op = "~" -> Register(r.bits, r.signed, 2^r.bits - 1 - r.word)
    [] op = "!" -> Register(1, FALSE, IF r.word = 0 THEN 1 ELSE 0)

\* What LLVM leaves undefined: nothing in the generated code guards it.
Undefined(op, lw, rw, bits, signed) ==
  \/ op \in {"/", "%"} /\ rw = 0
  \/ op \in {"/", "%"} /\ signed /\ lw = 2^(bits - 1) /\ rw = 2^bits - 1
  \/ op \in Shifts /\ rw >= bits
UndefinedBinary(op, l, r) ==
  LET bits == WiderOf(l, r)
  IN  Undefined(op, SExt(l.word, l.bits, bits), SExt(r.word, r.bits, bits), bits,
                EitherSigned(l, r))

-----------------------------------------------------------------------------
(* Where the two part.                                                     *)

\* A value that a variable, or a register, of type t holds without loss.
Extended(w, t) == IF t.signed THEN SExt(w, t.bits, Width) ELSE w
Fits(v, t) == v.word = Extended(Cut(v.word, t.bits), t)

\* One reads the words as signed and the other does not, and it matters.
ReadDifferently(op, l, r, signed) ==
  /\ op \in SignSensitive
  /\ signed = Unsigned(l, r)
  /\ Negative(l.word) \/ Negative(r.word)

\* Two narrow operands are computed with in the code as narrow ones.
ComputedTooNarrow(op, y, z) ==
  /\ op \notin Compares
  /\ ~Fits(IBinary(op, vals[y], vals[z]),
           Register(WiderOf(Load(y), Load(z)), EitherSigned(Load(y), Load(z)), 0))

\* x gets v in the interpreter and one of words in the code.
Assigned(x, v, words, apart) ==
  /\ vals' = [vals EXCEPT ![x] = v]
  /\ \E w \in words : mem' = [mem EXCEPT ![x] = w]
  /\ parted' = (apart \/ ~Fits(v, type[x]))
  /\ UNCHANGED type

AnyOf(t) == 0 .. 2^t.bits - 1

-----------------------------------------------------------------------------
Init ==
  /\ type \in [Names -> DeclTypes]
  /\ vals = [x \in Names |-> Value("Int", 0)]
  /\ mem = [x \in Names |-> 0]
  /\ parted = FALSE

\* x = n;  and  x = y;
Literal(x, n) == Assigned(x, Value("Int", n), {Stored(Register(Width, TRUE, n), type[x])}, FALSE)
Copy(x, y) == Assigned(x, vals[y], {Stored(Load(y), type[x])}, FALSE)

\* x = y op z;
Binary(x, op, y, z) ==
  LET l == Load(y)
      r == Load(z)
  IN  IF UndefinedBinary(op, l, r)
      THEN Assigned(x, IBinary(op, vals[y], vals[z]), AnyOf(type[x]), TRUE)
      ELSE Assigned(x, IBinary(op, vals[y], vals[z]),
                    {Stored(CBinary(op, l, r), type[x])},
                    \/ ReadDifferently(op, vals[y], vals[z], EitherSigned(l, r))
                    \/ ComputedTooNarrow(op, y, z))

\* x op= y;  where a division of the least number by -1 stops the interpreter, too.
Compound(x, op, y) ==
  LET l == Load(x)
      r == Stored(Load(y), type[x])
  IN  IF Undefined(op, l.word, r, l.bits, TRUE)
      THEN Assigned(x, ICompound(op, vals[x], vals[y]), AnyOf(type[x]), TRUE)
      ELSE Assigned(x, ICompound(op, vals[x], vals[y]),
                    {CCompound(op, l, Load(y))},
                    \/ /\ op = ">>"
                       /\ Negative(vals[x].word)
                    \/ /\ op \in {"/", "%"} \cup Shifts
                       /\ ~Fits(vals[y], type[x]))

\* x++;  x--;
IncDec(x, by) ==
  Assigned(x, Value("Int", Cut(vals[x].word + by, Width)),
           {Cut(mem[x] + by, type[x].bits)}, FALSE)

\* x = op y;
Unary(x, op, y) ==
  Assigned(x, IUnary(op, vals[y]), {Stored(CUnary(op, Load(y)), type[x])},
           ~Fits(IUnary(op, vals[y]), Load(y)))

\* x = y && (z = w);  and with ||.  The value of an assignment is what was stored,
\* in the code, and what was computed, in the interpreter.
Logic(x, op, y, z, w) ==
  LET Both(left, right) == IF op = "&&" THEN left /\ right ELSE left \/ right
      GoesOn(left) == IF op = "&&" THEN left ELSE ~left
      stored == Stored(Load(w), type[z])
      evaluated == GoesOn(True(vals[y]))
  IN  /\ x # z
      /\ vals' = [vals EXCEPT ![x] = Bool(Both(True(vals[y]), True(vals[w]))),
                              ![z] = IF evaluated THEN vals[w] ELSE @]
      /\ mem' = [mem EXCEPT
                   ![x] = IF Both(mem[y] # 0, stored # 0) THEN 1 ELSE 0,
                   ![z] = IF GoesOn(mem[y] # 0) THEN stored ELSE @]
      /\ parted' = \/ evaluated /\ ~Fits(vals[w], type[z])
                   \/ ~Fits(vals'[x], type[x])
      /\ UNCHANGED type

\* x = y < z < (z = w);  the interpreter stops at the first pair that fails, the
\* code computes all of them, and as signed.
Chain(x, y, z, w) ==
  LET stored == Stored(Load(w), type[z])
      Less(l, r) == Compute("<", l, r, Width, TRUE)
      Wide(reg) == SExt(reg.word, reg.bits, Width)
      first == True(IBinary("<", vals[y], vals[z]))
      second == True(IBinary("<", vals[z], vals[w]))
  IN  /\ x # z
      /\ vals' = [vals EXCEPT ![x] = Bool(first /\ second),
                              ![z] = IF first THEN vals[w] ELSE @]
      /\ mem' = [mem EXCEPT
                   ![x] = Less(Wide(Load(y)), Wide(Load(z)))
                          * Less(Wide(Load(z)), SExt(stored, type[z].bits, Width)),
                   ![z] = stored]
      /\ parted' = \/ ~first
                   \/ ReadDifferently("<", vals[y], vals[z], TRUE)
                   \/ ReadDifferently("<", vals[z], vals[w], TRUE)
                   \/ ~Fits(vals[w], type[z])
                   \/ ~Fits(vals'[x], type[x])
      /\ UNCHANGED type

Next ==
  /\ ~parted
  /\ \E x, y \in Names :
       \/ \E n \in 0 .. 2^(Width - 1) - 1 : Literal(x, n)
       \/ Copy(x, y)
       \/ \E op \in Arithmetic \cup Compares, z \in Names : Binary(x, op, y, z)
       \/ \E op \in Arithmetic : Compound(x, op, y)
       \/ \E by \in {1, -1} : IncDec(x, by)
       \/ \E op \in Unaries : Unary(x, op, y)
       \/ \E op \in {"&&", "||"}, z, w \in Names : Logic(x, op, y, z, w)
       \/ \E z, w \in Names : Chain(x, y, z, w)

Spec == Init /\ [][Next]_vars

-----------------------------------------------------------------------------
\* A variable of the code holds what the interpreter's holds: through any sequence
\* of operators, with the kinds of the interpreter's values drifting from the
\* declared types, as long as nothing undefined is computed, nothing is lost in
\* a narrow variable, and no sign is read differently.
ResultsAgree ==
  ~parted => \A x \in Names : vals[x].word = Extended(mem[x], type[x])
=============================================================================
