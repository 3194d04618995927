----------------------------- MODULE ClassLayout -----------------------------
(***************************************************************************)
(* Where the fields of a class lie: computeStructLayout of the interpreter *)
(* and walkClassFields of the code generator, which take the same steps,   *)
(* and which bits loading and storing a field touches in each of them.     *)
(*                                                                         *)
(* The members of a class come one at a time.  A field is a plain one of   *)
(* some bytes, a bit-field of some type and width, or an anonymous union   *)
(* with the sizes of its members; a union is laid out as one piece.  A     *)
(* piece is the interval of bits <<lo, hi>> it has been given.             *)
(***************************************************************************)
EXTENDS Integers, Sequences, FiniteSetsExt

CONSTANTS
  Plain,      \* the sizes of plain fields, in bytes
  Bits,       \* the types and widths of bit-fields: <<bytes, bits>>
  Unions,     \* the anonymous unions: sequences of sizes in bytes
  MaxMembers  \* bound: how many members the classes have together

VARIABLES
  fields,    \* the pieces of this class so far
  off,       \* offset
  tmp,       \* tmp_offset of the first pass, which places the unions
  word,      \* current_word_byte_offset
  bit,       \* current_bit_offset
  run,       \* in_bit_field_run
  start,     \* where the fields of this class begin: the size of its base
  ancestors  \* the classes it derives from, farthest first

vars == <<fields, off, tmp, word, bit, run, start, ancestors>>

-----------------------------------------------------------------------------
BitOf(x, k) == (x \div k) % 2

\* x & ~(m), for masks below 8.
Shared(x, m, k) == IF BitOf(x, k) = 1 /\ BitOf(m, k) = 1 THEN k ELSE 0
Clear(x, m) == x - (Shared(x, m, 1) + Shared(x, m, 2) + Shared(x, m, 4))

\* The alignment is the size itself, up to 8: of an array of 3 bytes, 3.
AlignUp(x, size) ==
  LET align == IF size > 8 THEN 8 ELSE size
  IN Clear(x + align - 1, align - 1)

Piece(kind, lo, hi) == [kind |-> kind, lo |-> lo, hi |-> hi]

\* The first pass counts every member but those of unions, bit-fields too.
Skip(size) == tmp' = AlignUp(tmp, size) + size

Room == Len(fields) + MapThenSumSet(LAMBDA i : Len(ancestors[i].fields), DOMAIN ancestors) < MaxMembers

AddPlain(size) ==
  LET at == AlignUp(off, size)
  IN /\ Room
     /\ fields' = Append(fields, Piece("plain", 8 * at, 8 * (at + size)))
     /\ off' = at + size
     /\ Skip(size)
     /\ run' = FALSE /\ bit' = 0
     /\ UNCHANGED <<word, start, ancestors>>

\* MUTANT of AddBits: a run goes on although the word is full.
AddBitsOverfull(size, width) ==
  LET fresh == ~run
      at == IF fresh THEN AlignUp(off, 8) ELSE word
      first == IF fresh THEN 0 ELSE bit
  IN /\ Room
     /\ fields' = Append(fields, Piece("bits", 8 * at + first, 8 * at + first + width))
     /\ off' = IF fresh THEN at + 8 ELSE off
     /\ word' = at /\ bit' = first + width /\ run' = TRUE
     /\ Skip(size)
     /\ UNCHANGED <<start, ancestors>>

\* Bit-fields share words of 8 bytes; a plain field ends the run, a union does not.
AddBits(size, width) ==
  LET fresh == ~run \/ bit + width > 64
      at == IF fresh THEN AlignUp(off, 8) ELSE word
      first == IF fresh THEN 0 ELSE bit
  IN /\ Room
     /\ fields' = Append(fields, Piece("bits", 8 * at + first, 8 * at + first + width))
     /\ off' = IF fresh THEN at + 8 ELSE off
     /\ word' = at /\ bit' = first + width /\ run' = TRUE
     /\ Skip(size)
     /\ UNCHANGED <<start, ancestors>>

Longest(sizes) == Max({sizes[i] : i \in DOMAIN sizes})

\* A union begins where the first pass has got to, which has not counted the
\* unions before it, and is aligned as its first member.
AddUnion(sizes) ==
  LET at == AlignUp(tmp, sizes[1])
      end == at + Longest(sizes)
  IN /\ Room
     /\ fields' = Append(fields, Piece("union", 8 * at, 8 * end))
     /\ off' = Max({off, end})
     /\ UNCHANGED <<tmp, word, bit, run, start, ancestors>>

\* The class is complete; another derives from it.
Derive ==
  /\ fields # <<>>
  /\ ancestors' = Append(ancestors, [fields |-> fields, size |-> off])
  /\ start' = off
  /\ off' = off /\ tmp' = off
  /\ fields' = <<>> /\ word' = 0 /\ bit' = 0 /\ run' = FALSE

Init ==
  /\ fields = <<>> /\ off = 0 /\ tmp = 0 /\ word = 0 /\ bit = 0 /\ run = FALSE
  /\ start = 0 /\ ancestors = <<>>

Next ==
  \/ \E size \in Plain : AddPlain(size)
  \/ \E b \in Bits : AddBits(b[1], b[2])
  \/ \E sizes \in Unions : AddUnion(sizes)
  \/ Derive

Spec == Init /\ [][Next]_vars

-----------------------------------------------------------------------------
(* Loading and storing.                                                    *)

Apart(p, q) == p.hi <= q.lo \/ q.hi <= p.lo

\* The interpreter loads and stores a plain field, whatever its type, with a
\* memcpy of 8 bytes; a bit-field is masked.
InterpreterTouches(p) ==
  IF p.kind = "bits" /\ p.hi - p.lo < 64
  THEN p
  ELSE [p EXCEPT !.hi = @ - (p.hi - p.lo) + 64]

Inherited ==
  UNION {{ancestors[k].fields[i] : i \in DOMAIN ancestors[k].fields} : k \in DOMAIN ancestors}

\* The field the compiled code finds for field i of ancestor k: it looks into
\* the class and its base, and falls back to the beginning of the object.
CompiledFinds(k, i) ==
  IF k = Len(ancestors) THEN ancestors[k].fields[i].lo ELSE 0

-----------------------------------------------------------------------------
(* Properties.                                                             *)

\* Two pieces overlap only through a union that is placed behind the first pass:
\* a plain field overlaps nothing before it, a bit-field nothing but unions, and
\* a union nothing if plain fields only come before it.
PlacedApart ==
  \A i, j \in DOMAIN fields :
    /\ i < j
    /\ \/ fields[j].kind = "plain"
       \/ fields[j].kind = "bits" /\ fields[i].kind # "union"
       \/ fields[j].kind = "union" /\ \A k \in 1 .. j - 1 : fields[k].kind = "plain"
    => Apart(fields[i], fields[j])

\* The fields lie behind those of the base, and in the object that is allocated.
WithinObject ==
  /\ \A i \in DOMAIN fields : 8 * start <= fields[i].lo /\ fields[i].hi <= 8 * off
  /\ \A p \in Inherited : p.hi <= 8 * start

\* Every anonymous union has storage of its own.
UnionsApart ==
  \A i, j \in DOMAIN fields :
    i # j /\ fields[i].kind = "union" => Apart(fields[i], fields[j])

\* "I32 4 bytes" (docs.html): a store of one field leaves every other as it is.
StoresOnlyItsField ==
  \A i, j \in DOMAIN fields :
    i # j /\ Apart(fields[i], fields[j]) => Apart(InterpreterTouches(fields[i]), fields[j])

\* That holds for fields of 8 bytes, and bit-fields of a type of 8 bytes.
Wide == \A i \in DOMAIN fields : fields[i].kind # "bits" => fields[i].hi - fields[i].lo >= 64
WideStoresOnlyTheirField == Wide => StoresOnlyItsField

\* Together: no field disturbs another that has a place of its own.
FieldsKeepApart == PlacedApart /\ WithinObject /\ WideStoresOnlyTheirField

\* computeFieldOffset finds the fields a class inherits.
CompiledFindsInherited ==
  \A k \in DOMAIN ancestors : \A i \in DOMAIN ancestors[k].fields :
    CompiledFinds(k, i) = ancestors[k].fields[i].lo
=============================================================================
