-------------------------- MODULE ExecutionProofs ---------------------------
(***************************************************************************)
(* Theorems about what runs beside the statement walker: the variadic      *)
(* arguments of compiled code (VarArgs), for every size of their buffer;   *)
(* the variables of the interpreter (VarStore), which are those of lexical *)
(* scoping for all programs that capture no name and let no exception out  *)
(* of its call; and the layout of classes (ClassLayout), for classes of    *)
(* any length.  The walker itself is in InterpControlProofs, extended here *)
(* so that one module of runs sees all of them.                            *)
(***************************************************************************)
EXTENDS InterpControlProofs

CONSTANTS
  VaValues,     \* the values of arguments
  VaSlots,      \* HOLYC_VA_MAX, the size of the buffer
  VaMaxExtra,   \* bound: how many extra arguments a call passes
  VaMaxActive,  \* bound: how many calls are active
  VaBeyond      \* what a read past the end of the buffer returns

CONSTANTS
  VarPrograms,  \* what the functions declare, and how exceptions are caught
  Names,        \* the names of variables
  MaxVal,       \* bound: the values that are stored
  Absent,       \* the value of a variable that a frame does not have
  MaxFrames,    \* bound: how many frames are open
  MaxBlocks     \* bound: how many blocks of try an activation is in

ASSUME VaSlotsAssumption == VaSlots \in Nat

CONSTANTS
  PlainSizes,   \* the sizes of the plain fields of classes
  BitFields,    \* the types and widths of bit-fields
  UnionSizes,   \* the sizes of the members of a union
  MaxMembers    \* bound: how many members a class has

VARIABLES
  va_stack, va_buf, va_n,  \* VarArgs
  decls, var_frames, globals, staticVars, var_func, calls, known, seen,  \* VarStore
  fields, off, tmp, word, bit, run, start, ancestors  \* ClassLayout

VA == INSTANCE VarArgs
  WITH Values <- VaValues, Slots <- VaSlots, MaxExtra <- VaMaxExtra,
       MaxActive <- VaMaxActive, Beyond <- VaBeyond,
       stack <- va_stack, buf <- va_buf, n <- va_n

\* A variadic function reads its own arguments until another call passes some.
ReadsOwnUntilOthersPass == VA!ReadsOwnUntilOthersPass

Vars == INSTANCE VarStore
  WITH Programs <- VarPrograms, frames <- var_frames, curFunc <- var_func

\* The bodies have names of their own, and the code of an exception is kept under
\* a name that no program declares.
ASSUME VarsAssumption ==
  /\ MaxVal \in Nat /\ Absent \notin Vars!Values
  /\ Funcs \cap {Vars!Main, Vars!TopLevel, Vars!NoName} = {}
  /\ Vars!ExceptCode \notin Names

\* Where no name is captured and no exception leaves its call, a name stands for
\* the variable that the text gives it, although the frames are searched.
ImplementsLexicalScope == Vars!ImplementsLexicalScope

Layout == INSTANCE ClassLayout
  WITH Plain <- PlainSizes, Bits <- BitFields, Unions <- UnionSizes

\* A bit-field fits into the word that all of them share; a union has members.
ASSUME LayoutAssumption ==
  /\ PlainSizes \subseteq Nat \ {0}
  /\ BitFields \subseteq (Nat \ {0}) \X (0 .. 64)
  /\ UnionSizes \subseteq Seq(Nat \ {0}) \ {<<>>}

\* ClassLayout: no two fields share a byte or a bit they should not, and all lie
\* within the object; the interpreter, which stores eight bytes at a time, touches
\* no other field where every field has eight.
FieldsKeepApart == Layout!FieldsKeepApart

-----------------------------------------------------------------------------
(***************************************************************************)
(* The buffer of variadic arguments: at most one call's arguments are in   *)
(* it, those of the call made last among the ones that passed any.         *)
(***************************************************************************)
\* The inductive invariant: at most one call's arguments are in the buffer.
BufferInv ==
  /\ VA!ActivationsTyped
  /\ va_stack \in Seq(VA!Activation)
  /\ \A k \in DOMAIN va_stack :
       va_stack[k].undisturbed /\ va_stack[k].extra # <<>> =>
         /\ va_n = Len(va_stack[k].extra)
         /\ \A i \in VA!Index : i < va_n => va_buf[i] = va_stack[k].extra[i + 1]

\* What a call may pass is a sequence.
LEMMA ExtrasAreSequences ==
  ASSUME NEW extra \in VA!Extras
  PROVE  Len(extra) \in Nat /\ DOMAIN extra = 1 .. Len(extra)
<1>1. PICK k \in 0 .. VaMaxExtra : extra \in [1 .. k -> VaValues]
  BY DEF VA!Extras
<1>2. k \in Nat
  BY <1>1
<1>3. QED
  BY <1>1, <1>2

\* Before the first call there is nothing to read.
LEMMA InitBuffer == VA!Init => BufferInv
  BY DEF VA!Init, BufferInv, VA!ActivationsTyped

\* A call that passes arguments overwrites those of every call before it.
LEMMA PassKeeps ==
  ASSUME BufferInv, NEW extra \in VA!Extras, VA!Call(extra)
  PROVE  BufferInv'
<1> DEFINE new == [extra |-> extra, undisturbed |-> TRUE]
           old == [k \in DOMAIN va_stack |-> [va_stack[k] EXCEPT !.undisturbed = FALSE]]
<1>1. va_stack \in Seq(VA!Activation) /\ new \in VA!Activation
  BY DEF BufferInv, VA!Activation
<1>2. Len(extra) \in Nat /\ DOMAIN extra = 1 .. Len(extra)
  BY ExtrasAreSequences
<1>3. CASE extra = <<>>
  <2>1. va_stack' = Append(va_stack, new) /\ va_buf' = va_buf /\ va_n' = va_n
    BY <1>3 DEF VA!Call
  <2>2. va_stack' \in Seq(VA!Activation)
    BY <1>1, <2>1
  <2>3. ASSUME NEW k \in DOMAIN va_stack', va_stack'[k].undisturbed, va_stack'[k].extra # <<>>
        PROVE  k \in DOMAIN va_stack /\ va_stack'[k] = va_stack[k]
    BY <1>1, <1>3, <2>1, <2>3
  <2>4. (\A k \in DOMAIN va_stack :
           va_stack[k].undisturbed /\ va_stack[k].extra # <<>> =>
             /\ va_n = Len(va_stack[k].extra)
             /\ \A i \in VA!Index : i < va_n => va_buf[i] = va_stack[k].extra[i + 1])'
    BY <2>1, <2>3 DEF BufferInv
  <2>5. VA!ActivationsTyped'
    BY <2>2 DEF VA!ActivationsTyped
  <2>6. QED
    BY <2>2, <2>4, <2>5 DEF BufferInv
<1>4. CASE extra # <<>>
  <2>1. va_stack' = Append(old, new) /\ VA!Passed(extra)
    BY <1>4 DEF VA!Call
  <2>2. old \in Seq(VA!Activation) /\ Len(old) = Len(va_stack)
    <3>1. ASSUME NEW k \in DOMAIN va_stack PROVE old[k] \in VA!Activation
      <4>1. va_stack[k] \in VA!Activation
        BY <1>1
      <4>2. old[k] = [va_stack[k] EXCEPT !.undisturbed = FALSE]
        OBVIOUS
      <4>3. QED
        BY <4>1, <4>2 DEF VA!Activation
    <3>2. DOMAIN va_stack = 1 .. Len(va_stack) /\ Len(va_stack) \in Nat
      BY <1>1
    <3>3. QED
      BY <3>1, <3>2
  <2>3. va_stack' \in Seq(VA!Activation)
    BY <1>1, <2>1, <2>2
  <2>4. ASSUME NEW k \in DOMAIN va_stack', va_stack'[k].undisturbed
        PROVE  va_stack'[k] = new
    <3>1. CASE k \in DOMAIN old
      <4>1. va_stack'[k] = old[k]
        BY <2>1, <2>2, <3>1
      <4>2. va_stack[k] \in VA!Activation /\ k \in DOMAIN va_stack
        BY <1>1, <3>1
      <4>3. ~ old[k].undisturbed
        BY <4>2 DEF VA!Activation
      <4>4. QED
        BY <2>4, <4>1, <4>3
    <3>2. CASE k \notin DOMAIN old
      <4>1. k = Len(old) + 1
        BY <2>1, <2>2, <3>2
      <4>2. QED
        BY <2>1, <2>2, <4>1
    <3>3. QED
      BY <3>1, <3>2
  <2>5. va_n' = Len(extra) /\ \A i \in VA!Index : i < va_n' => va_buf'[i] = extra[i + 1]
    BY <2>1 DEF VA!Passed
  <2>6. (\A k \in DOMAIN va_stack :
           va_stack[k].undisturbed /\ va_stack[k].extra # <<>> =>
             /\ va_n = Len(va_stack[k].extra)
             /\ \A i \in VA!Index : i < va_n => va_buf[i] = va_stack[k].extra[i + 1])'
    BY <2>4, <2>5
  <2>7. VA!ActivationsTyped'
    BY <2>3 DEF VA!ActivationsTyped
  <2>8. QED
    BY <2>3, <2>6, <2>7 DEF BufferInv
<1>5. QED
  BY <1>3, <1>4

\* A return leaves the buffer alone.
LEMMA VaReturnKeeps == BufferInv /\ VA!Return => BufferInv'
<1> SUFFICES ASSUME BufferInv, VA!Return PROVE BufferInv'
  OBVIOUS
<1>1. /\ va_stack \in Seq(VA!Activation) /\ va_stack # <<>>
      /\ va_stack' = SubSeq(va_stack, 1, Len(va_stack) - 1)
      /\ va_buf' = va_buf /\ va_n' = va_n
  BY DEF BufferInv, VA!Return
<1>2. /\ va_stack' \in Seq(VA!Activation)
      /\ \A k \in DOMAIN va_stack' : k \in DOMAIN va_stack /\ va_stack'[k] = va_stack[k]
  BY <1>1
<1>3. QED
  BY <1>1, <1>2 DEF BufferInv, VA!ActivationsTyped

\* Every step keeps the invariant.
LEMMA BufferStep == BufferInv /\ [VA!Next]_(VA!vars) => BufferInv'
<1> SUFFICES ASSUME BufferInv, [VA!Next]_(VA!vars) PROVE BufferInv'
  OBVIOUS
<1>1. CASE UNCHANGED VA!vars
  BY <1>1 DEF VA!vars, BufferInv, VA!ActivationsTyped
<1>2. CASE VA!Next
  BY <1>2, PassKeeps, VaReturnKeeps DEF VA!Next
<1>3. QED
  BY <1>1, <1>2

\* A variadic function reads its own arguments until a call below it passes
\* some, as long as they fit the buffer of the runtime.
THEOREM OwnArgumentsRead == VA!Spec => []ReadsOwnUntilOthersPass
<1>1. BufferInv => ReadsOwnUntilOthersPass
  <2> SUFFICES ASSUME BufferInv, NEW k \in DOMAIN va_stack, va_stack[k].undisturbed,
                      Len(va_stack[k].extra) \in 1 .. VaSlots
               PROVE  VA!Sees(va_stack[k])
    BY DEF ReadsOwnUntilOthersPass, VA!ReadsOwnUntilOthersPass
  <2>1. va_stack[k].extra # <<>>
    OBVIOUS
  <2>2. /\ va_n = Len(va_stack[k].extra)
        /\ \A i \in VA!Index : i < va_n => va_buf[i] = va_stack[k].extra[i + 1]
    BY <2>1 DEF BufferInv
  <2>3. ASSUME NEW i \in 1 .. Len(va_stack[k].extra)
        PROVE  VA!Get(i - 1) = va_stack[k].extra[i]
    <3>1. i - 1 \in VA!Index /\ i - 1 < va_n /\ (i - 1) + 1 = i
      BY <2>2, VaSlotsAssumption DEF VA!Index
    <3>2. QED
      BY <2>2, <3>1 DEF VA!Get
  <2>4. QED
    BY <2>2, <2>3 DEF VA!Sees
<1>2. QED
  BY <1>1, InitBuffer, BufferStep, PTL DEF VA!Spec

-----------------------------------------------------------------------------
(* Variables.                                                              *)

\* Programs in which no name is captured and every exception is caught in the
\* call that raises it, outside of catch clauses.
Tame(d) ==
  /\ d \in Vars!Declarations
  /\ Vars!NoCapture(d) /\ d.statics[Vars!TopLevel] = {}
  /\ ~ d.crossing /\ ~ d.rethrow

\* Every activation but that of the top level has its frame, in their order, and
\* the name of the function is that of the running one.
KeyOf(f) == IF f \in Funcs THEN f ELSE Vars!NoName
Frameless == IF calls[1].func = Vars!TopLevel THEN 1 ELSE 0
Stacked ==
  /\ calls[1].func \in {Vars!Main, Vars!TopLevel}
  /\ \A k \in 2 .. Len(calls) : /\ calls[k].func \in Funcs
                                /\ calls[k].saved = KeyOf(calls[k - 1].func)
  /\ \A k \in 1 .. Len(calls) : calls[k].base = k - Frameless
  /\ Len(var_frames) = Len(calls) - Frameless
  /\ var_func = KeyOf(calls[Len(calls)].func)

\* A frame has the names that its activation has declared, and no others.
HasOwn(k) ==
  \A n \in Names :
    LET a == calls[k]
        fr == var_frames[a.base]
    IN /\ fr.keys[n] # Vars!NoKey => /\ n \in decls.statics[a.func]
                                     /\ fr.keys[n] = <<KeyOf(a.func), n>>
                                     /\ staticVars[<<KeyOf(a.func), n>>] # Absent
       /\ fr.vars[n] # Absent => n \in decls.autos[a.func]
       /\ n \in a.declared => fr.keys[n] # Vars!NoKey \/ fr.vars[n] # Absent
OwnNames ==
  /\ \A k \in 1 .. Len(calls) :
       IF calls[k].base = 0 THEN calls[k].declared \subseteq known ELSE HasOwn(k)
  /\ \A k \in 1 .. Len(var_frames) : var_frames[k].keys[Vars!ExceptCode] = Vars!NoKey
  /\ \A n \in known : n \in decls.autos[Vars!TopLevel] /\ globals[n] # Absent

\* The code that a catch clause sees is the one it has caught, and no frame of a
\* later call has another.
HeldCodes == {c \in Vars!Values :
  \/ \E k \in 1 .. Len(var_frames) :
       /\ var_frames[k].vars[Vars!ExceptCode] = c
       /\ \A j \in 1 .. Len(var_frames) :
            j > k => var_frames[j].vars[Vars!ExceptCode] = Absent
  \/ /\ \A k \in 1 .. Len(var_frames) : var_frames[k].vars[Vars!ExceptCode] = Absent
     /\ globals[Vars!ExceptCode] = c}
CodesSeen ==
  \A k \in 1 .. Len(calls) : \A b \in 1 .. Len(calls[k].blocks) :
    calls[k].blocks[b] # Vars!Try =>
      /\ calls[k].blocks[b] \in HeldCodes
      /\ \A j \in 1 .. Len(var_frames) :
           j > calls[k].base => var_frames[j].vars[Vars!ExceptCode] = Absent

VarsInv ==
  /\ Vars!TypeOK /\ Tame(decls)
  /\ calls # <<>> => Stacked /\ OwnNames /\ CodesSeen

LEMMA BasicNames ==
  /\ Vars!Main = "Main" /\ Vars!TopLevel = "top level" /\ Vars!NoName = "no name"
  /\ Vars!ExceptCode \in Vars!Stored /\ Names \subseteq Vars!Stored
  /\ 0 \in Vars!Values /\ Absent \notin Vars!Values
  /\ Vars!Main \notin Funcs /\ Vars!TopLevel \notin Funcs /\ Vars!Main # Vars!TopLevel
  /\ Vars!ExceptCode \notin Names
<1>1. Vars!Main = "Main" /\ Vars!TopLevel = "top level" /\ Vars!NoName = "no name"
  BY DEF Vars!Main, Vars!TopLevel, Vars!NoName
<1>2. Vars!ExceptCode \in Vars!Stored /\ Names \subseteq Vars!Stored
  BY DEF Vars!Stored
<1>3. 0 \in Vars!Values
  BY VarsAssumption DEF Vars!Values
<1>4. Vars!Main # Vars!TopLevel
  BY DEF Vars!Main, Vars!TopLevel
<1> QED
  BY <1>1, <1>2, <1>3, <1>4, VarsAssumption

LEMMA ActivationIs ==
  ASSUME NEW f \in Vars!Bodies, NEW base \in Nat, NEW saved \in Funcs \cup {Vars!NoName},
         NEW d \in SUBSET Names, NEW b \in Seq(Vars!Values)
  PROVE  [func |-> f, base |-> base, saved |-> saved, declared |-> d, blocks |-> b]
           \in Vars!Activation
BY DEF Vars!Activation

\* Setting the last element.
LEMMA SetTop ==
  ASSUME NEW S, NEW s \in Seq(S), s # <<>>, NEW a \in S
  PROVE  LET t == [s EXCEPT ![Len(s)] = a] IN
         /\ t \in Seq(S) /\ Len(t) = Len(s) /\ t[Len(s)] = a
         /\ \A k \in 1 .. Len(s) : k # Len(s) => t[k] = s[k]
<1>1. Len(s) \in 1 .. Len(s)
  OBVIOUS
<1> QED
  BY <1>1

\* Setting a variable, or the key of a static, of a frame.
SetVariable(s, k, n, v) == [s EXCEPT ![k].vars[n] = v]
SetKey(s, k, n, v) == [s EXCEPT ![k].keys[n] = v]

LEMMA SetVariableIs ==
  ASSUME NEW s \in Seq(Vars!Frame), NEW k \in 1 .. Len(s), NEW n \in Vars!Stored,
         NEW v \in Vars!Values
  PROVE  LET t == SetVariable(s, k, n, v) IN
         /\ t \in Seq(Vars!Frame) /\ Len(t) = Len(s)
         /\ \A j \in 1 .. Len(s) : t[j].keys = s[j].keys
         /\ \A j \in 1 .. Len(s) : j # k => t[j] = s[j]
         /\ \A m \in Vars!Stored : t[k].vars[m] = IF m = n THEN v ELSE s[k].vars[m]
<1> DEFINE fr == [s[k] EXCEPT !.vars[n] = v]
           t == SetVariable(s, k, n, v)
<1>1. s[k] \in Vars!Frame
  OBVIOUS
<1>2. /\ fr \in Vars!Frame /\ fr.keys = s[k].keys
      /\ \A m \in Vars!Stored : fr.vars[m] = IF m = n THEN v ELSE s[k].vars[m]
  BY <1>1 DEF Vars!Frame
<1>3. t = [s EXCEPT ![k] = fr]
  BY DEF SetVariable
<1> HIDE DEF fr, t
<1>4. /\ t \in Seq(Vars!Frame) /\ Len(t) = Len(s) /\ t[k] = fr
      /\ \A j \in 1 .. Len(s) : j # k => t[j] = s[j]
  BY <1>2, <1>3
<1>5. \A j \in 1 .. Len(s) : t[j].keys = s[j].keys
  BY <1>2, <1>4
<1> QED
  BY <1>2, <1>4, <1>5 DEF t

LEMMA SetKeyIs ==
  ASSUME NEW s \in Seq(Vars!Frame), NEW k \in 1 .. Len(s), NEW n \in Vars!Stored,
         NEW v \in Vars!Keys
  PROVE  LET t == SetKey(s, k, n, v) IN
         /\ t \in Seq(Vars!Frame) /\ Len(t) = Len(s)
         /\ \A j \in 1 .. Len(s) : t[j].vars = s[j].vars
         /\ \A j \in 1 .. Len(s) : j # k => t[j] = s[j]
         /\ \A m \in Vars!Stored : t[k].keys[m] = IF m = n THEN v ELSE s[k].keys[m]
<1> DEFINE fr == [s[k] EXCEPT !.keys[n] = v]
           t == SetKey(s, k, n, v)
<1>1. s[k] \in Vars!Frame
  OBVIOUS
<1>2. /\ fr \in Vars!Frame /\ fr.vars = s[k].vars
      /\ \A m \in Vars!Stored : fr.keys[m] = IF m = n THEN v ELSE s[k].keys[m]
  BY <1>1 DEF Vars!Frame
<1>3. t = [s EXCEPT ![k] = fr]
  BY DEF SetKey
<1> HIDE DEF fr, t
<1>4. /\ t \in Seq(Vars!Frame) /\ Len(t) = Len(s) /\ t[k] = fr
      /\ \A j \in 1 .. Len(s) : j # k => t[j] = s[j]
  BY <1>2, <1>3
<1>5. \A j \in 1 .. Len(s) : t[j].vars = s[j].vars
  BY <1>2, <1>4
<1> QED
  BY <1>2, <1>4, <1>5 DEF t

\* A bounded set of numbers has a greatest element.
LEMMA GreatestExists ==
  ASSUME NEW n \in Nat, NEW S, S \subseteq 1 .. n, S # {}
  PROVE  \E m \in S : \A k \in S : k <= m
<1> DEFINE T == {n - k : k \in S}
<1>1. T \subseteq Nat /\ T # {}
  <2>1. \A k \in S : n - k \in Nat
    OBVIOUS
  <2> QED
    BY <2>1
<1>2. PICK d \in T : \A e \in T : d <= e
  <2> HIDE DEF T
  <2> QED
    BY <1>1, LeastExists
<1>3. PICK m \in S : d = n - m
  OBVIOUS
<1>4. \A k \in S : n - k \in T
  OBVIOUS
<1> HIDE DEF T
<1> QED
  BY <1>2, <1>3, <1>4

\* The newest frame that has a name.
LEMMA NewestIs ==
  ASSUME var_frames \in Seq(Vars!Frame), NEW n
  PROVE  /\ Vars!Holders(n) # {} =>
              /\ Vars!Newest(n) \in 1 .. Len(var_frames)
              /\ Vars!Holds(var_frames[Vars!Newest(n)], n)
              /\ \A j \in 1 .. Len(var_frames) :
                   Vars!Holds(var_frames[j], n) => j <= Vars!Newest(n)
         /\ \A k \in 1 .. Len(var_frames) :
              Vars!Holds(var_frames[k], n)
                /\ (\A j \in 1 .. Len(var_frames) : j > k => ~ Vars!Holds(var_frames[j], n))
              => Vars!Holders(n) # {} /\ Vars!Newest(n) = k
<1> DEFINE H == Vars!Holders(n)
<1>1. H = {k \in 1 .. Len(var_frames) : Vars!Holds(var_frames[k], n)} /\ Len(var_frames) \in Nat
  BY DEF Vars!Holders
<1>2. ASSUME H # {}
      PROVE  Vars!Newest(n) \in H /\ \A j \in H : j <= Vars!Newest(n)
  <2>1. H \subseteq 1 .. Len(var_frames)
    BY <1>1
  <2>2. \E m \in H : \A k \in H : m >= k
    <3>1. PICK m \in H : \A k \in H : k <= m
      <4> HIDE DEF H
      <4> QED
        BY <1>1, <1>2, <2>1, GreatestExists
    <3> QED
      BY <2>1, <3>1
  <2>3. Vars!Max(H) \in H /\ \A k \in H : Vars!Max(H) >= k
    <3> HIDE DEF H
    <3> QED
      BY <2>2, Zenon DEF Vars!Max
  <2> QED
    BY <2>1, <2>3 DEF Vars!Newest
<1> HIDE DEF H
<1>3. ASSUME NEW k \in 1 .. Len(var_frames), Vars!Holds(var_frames[k], n),
             \A j \in 1 .. Len(var_frames) : j > k => ~ Vars!Holds(var_frames[j], n)
      PROVE  H # {} /\ Vars!Newest(n) = k
  <2>1. k \in H
    BY <1>1, <1>3
  <2>2. Vars!Newest(n) \in H /\ k <= Vars!Newest(n)
    BY <1>2, <2>1
  <2> QED
    BY <1>1, <1>3, <2>1, <2>2
<1> QED
  BY <1>1, <1>2, <1>3 DEF H

LEMMA InitVars ==
  (\A d \in VarPrograms : Tame(d)) /\ Vars!Init => VarsInv
<1> SUFFICES ASSUME \A d \in VarPrograms : Tame(d), Vars!Init PROVE VarsInv
  OBVIOUS
<1>1. /\ decls \in VarPrograms /\ var_frames = <<>> /\ var_func = Vars!NoName
      /\ globals = [n \in Vars!Stored |-> Absent] /\ staticVars = [k \in Vars!Keys |-> Absent]
      /\ calls = <<Vars!Begin(Vars!TopLevel, 0)>> /\ known = {} /\ seen = 0
  BY DEF Vars!Init
<1>2. Vars!Begin(Vars!TopLevel, 0) =
        [func |-> Vars!TopLevel, base |-> 0, saved |-> Vars!NoName,
         declared |-> {}, blocks |-> <<>>]
  BY <1>1 DEF Vars!Begin
<1>3. Vars!Begin(Vars!TopLevel, 0) \in Vars!Activation
  <2>1. Vars!TopLevel \in Vars!Bodies /\ Vars!NoName \in Funcs \cup {Vars!NoName}
        /\ <<>> \in Seq(Vars!Values) /\ {} \in SUBSET Names /\ 0 \in Nat
    BY DEF Vars!Bodies
  <2> QED
    BY <1>2, <2>1, ActivationIs
<1>4. Vars!TypeOK /\ Tame(decls)
  <2>1. Tame(decls) /\ decls \in Vars!Declarations
    BY <1>1 DEF Tame
  <2>2. calls \in Seq(Vars!Activation) /\ var_frames \in Seq(Vars!Frame)
    BY <1>1, <1>3
  <2>3. /\ globals \in [Vars!Stored -> Vars!Values \cup {Absent}]
        /\ staticVars \in [Vars!Keys -> Vars!Values \cup {Absent}]
    BY <1>1
  <2> QED
    BY <1>1, <2>1, <2>2, <2>3, BasicNames DEF Vars!TypeOK
<1>5. Len(calls) = 1 /\ calls[1] = Vars!Begin(Vars!TopLevel, 0) /\ Len(var_frames) = 0
  BY <1>1
<1>6. Stacked
  <2>1. calls[1].func = Vars!TopLevel /\ calls[1].base = 0 /\ Frameless = 1
    BY <1>2, <1>5 DEF Frameless
  <2>2. KeyOf(Vars!TopLevel) = Vars!NoName
    BY BasicNames DEF KeyOf
  <2> QED
    BY <1>1, <1>5, <2>1, <2>2 DEF Stacked
<1>7. OwnNames /\ CodesSeen
  BY <1>1, <1>2, <1>5 DEF OwnNames, CodesSeen
<1> QED
  BY <1>4, <1>6, <1>7 DEF VarsInv

LEMMA VarsFacts ==
  ASSUME VarsInv, calls # <<>>
  PROVE  /\ Vars!TypeOK /\ Tame(decls) /\ Stacked /\ OwnNames /\ CodesSeen
         /\ calls \in Seq(Vars!Activation) /\ var_frames \in Seq(Vars!Frame)
         /\ Len(calls) \in Nat \ {0} /\ Len(var_frames) \in Nat
         /\ Vars!Running = calls[Len(calls)] /\ Vars!Running \in Vars!Activation
         /\ \A k \in 1 .. Len(calls) : calls[k] \in Vars!Activation
         /\ \A k \in 1 .. Len(var_frames) : var_frames[k] \in Vars!Frame
         /\ Vars!Running.base = Len(var_frames)
         /\ \A k \in 1 .. Len(calls) : calls[k].base \in 0 .. Len(var_frames)
         /\ \A k \in 1 .. Len(calls) : k # Len(calls) => calls[k].base < Len(var_frames)
         /\ (Vars!Running.func = Vars!TopLevel <=> Len(var_frames) = 0)
         /\ (Vars!Running.func = Vars!TopLevel => Len(calls) = 1)
         /\ Frameless \in {0, 1}
         /\ var_func = KeyOf(Vars!Running.func)
         /\ \A j \in 1 .. Len(var_frames) :
              j + Frameless \in 1 .. Len(calls) /\ calls[j + Frameless].base = j
<1>1. Vars!TypeOK /\ Tame(decls) /\ Stacked /\ OwnNames /\ CodesSeen
  BY DEF VarsInv
<1>2. calls \in Seq(Vars!Activation) /\ var_frames \in Seq(Vars!Frame)
  BY <1>1 DEF Vars!TypeOK
<1>3. /\ Len(calls) \in Nat \ {0} /\ Len(var_frames) \in Nat
      /\ Vars!Running = calls[Len(calls)] /\ Vars!Running \in Vars!Activation
      /\ \A k \in 1 .. Len(calls) : calls[k] \in Vars!Activation
      /\ \A k \in 1 .. Len(var_frames) : var_frames[k] \in Vars!Frame
  BY <1>2 DEF Vars!Running
<1>4. Frameless \in {0, 1} /\ (Frameless = 1 <=> calls[1].func = Vars!TopLevel)
  BY DEF Frameless
<1>5. /\ \A k \in 1 .. Len(calls) : calls[k].base = k - Frameless
      /\ Len(var_frames) = Len(calls) - Frameless
      /\ var_func = KeyOf(Vars!Running.func)
  BY <1>1, <1>3 DEF Stacked
<1>6. /\ Vars!Running.base = Len(var_frames)
      /\ \A k \in 1 .. Len(calls) : calls[k].base \in 0 .. Len(var_frames)
      /\ \A k \in 1 .. Len(calls) : k # Len(calls) => calls[k].base < Len(var_frames)
      /\ \A j \in 1 .. Len(var_frames) :
           j + Frameless \in 1 .. Len(calls) /\ calls[j + Frameless].base = j
  BY <1>3, <1>4, <1>5
<1>7. ASSUME Vars!Running.func = Vars!TopLevel PROVE Len(calls) = 1 /\ Len(var_frames) = 0
  <2>1. Len(calls) = 1
    <3>1. Len(calls) # 1 => Len(calls) \in 2 .. Len(calls)
      BY <1>3
    <3>2. Len(calls) # 1 => Vars!Running.func \in Funcs
      BY <1>1, <1>3, <3>1 DEF Stacked
    <3> QED
      BY <1>7, <3>2, BasicNames
  <2> QED
    BY <1>3, <1>4, <1>5, <1>7, <2>1
<1>8. ASSUME Len(var_frames) = 0 PROVE Vars!Running.func = Vars!TopLevel
  BY <1>3, <1>4, <1>5, <1>8
<1> QED
  BY <1>1, <1>2, <1>3, <1>4, <1>5, <1>6, <1>7, <1>8

\* A name that resolves is held by the frame that runs, or by no frame at all.
LEMMA NamesResolve ==
  ASSUME VarsInv, calls # <<>>, NEW n \in Names, n \in Vars!Running.declared \cup known
  PROVE  \/ /\ Len(var_frames) # 0
            /\ Vars!Holders(n) # {} /\ Vars!Newest(n) = Len(var_frames)
            /\ Vars!Holds(var_frames[Len(var_frames)], n)
         \/ /\ Vars!Holders(n) = {} /\ globals[n] # Absent
            /\ \A k \in 1 .. Len(var_frames) : ~ Vars!Holds(var_frames[k], n)
<1>1. CASE n \in known
  <2>1. n \in decls.autos[Vars!TopLevel] /\ globals[n] # Absent
    BY <1>1, VarsFacts DEF OwnNames
  <2>2. ASSUME NEW k \in 1 .. Len(var_frames), Vars!Holds(var_frames[k], n)
        PROVE  FALSE
    <3> DEFINE c == calls[k + Frameless]
    <3>1. k + Frameless \in 1 .. Len(calls) /\ c.base = k /\ k # 0
      BY VarsFacts
    <3>2. HasOwn(k + Frameless)
      BY <3>1, VarsFacts DEF OwnNames
    <3>3. n \in decls.statics[c.func] \cup decls.autos[c.func]
      BY <2>2, <3>1, <3>2 DEF HasOwn, Vars!Holds
    <3>4. c.func \in Vars!Bodies /\ c.func # Vars!TopLevel
      <4>1. c.func \in Vars!Bodies
        BY <3>1, VarsFacts DEF Vars!Activation
      <4>2. k + Frameless # 1 \/ Frameless = 0
        BY <3>1, VarsFacts
      <4>3. Frameless = 0 => calls[1].func # Vars!TopLevel
        BY DEF Frameless
      <4>4. k + Frameless # 1 => c.func \in Funcs
        BY <3>1, VarsFacts DEF Stacked
      <4> QED
        BY <4>1, <4>2, <4>3, <4>4, BasicNames
    <3> QED
      BY <2>1, <3>3, <3>4, VarsFacts DEF Tame, Vars!NoCapture
  <2>3. Vars!Holders(n) = {}
    BY <2>2, VarsFacts DEF Vars!Holders
  <2> QED
    BY <2>1, <2>2, <2>3
<1>2. CASE n \notin known
  <2>1. n \in Vars!Running.declared /\ Len(calls) \in 1 .. Len(calls)
    BY <1>2, VarsFacts
  <2>2. Len(var_frames) # 0
    BY <1>2, <2>1, VarsFacts DEF OwnNames
  <2>3. Vars!Holds(var_frames[Len(var_frames)], n)
    <3>1. HasOwn(Len(calls))
      BY <2>1, <2>2, VarsFacts DEF OwnNames
    <3> QED
      BY <2>1, <3>1, VarsFacts DEF HasOwn, Vars!Holds
  <2>4. Len(var_frames) \in 1 .. Len(var_frames)
    BY <2>2, VarsFacts
  <2> QED
    BY <2>2, <2>3, <2>4, NewestIs, VarsFacts
<1> QED
  BY <1>1, <1>2

\* What reading the code yields, and storing it achieves.
LEMMA CodeIsRead ==
  ASSUME VarsInv, calls # <<>>, NEW c \in HeldCodes
  PROVE  Vars!getVar(Vars!ExceptCode) = c
<1>1. c # Absent /\ Vars!Default(c) = c
  BY BasicNames DEF Vars!Default, HeldCodes
<1>2. \A k \in 1 .. Len(var_frames) :
        /\ Vars!Holds(var_frames[k], Vars!ExceptCode)
             <=> var_frames[k].vars[Vars!ExceptCode] # Absent
        /\ var_frames[k].keys[Vars!ExceptCode] = Vars!NoKey
  BY VarsFacts DEF OwnNames, Vars!Holds
<1>3. ASSUME NEW k \in 1 .. Len(var_frames), var_frames[k].vars[Vars!ExceptCode] = c,
             \A j \in 1 .. Len(var_frames) : j > k => var_frames[j].vars[Vars!ExceptCode] = Absent
      PROVE  Vars!getVar(Vars!ExceptCode) = c
  <2>1. Vars!Holders(Vars!ExceptCode) # {} /\ Vars!Newest(Vars!ExceptCode) = k
    BY <1>1, <1>2, <1>3, NewestIs, VarsFacts
  <2> QED
    BY <1>2, <1>3, <2>1 DEF Vars!getVar
<1>4. ASSUME \A k \in 1 .. Len(var_frames) : var_frames[k].vars[Vars!ExceptCode] = Absent,
             globals[Vars!ExceptCode] = c
      PROVE  Vars!getVar(Vars!ExceptCode) = c
  <2>1. Vars!Holders(Vars!ExceptCode) = {}
    BY <1>2, <1>4, VarsFacts DEF Vars!Holders
  <2> QED
    BY <1>1, <1>4, <2>1 DEF Vars!getVar
<1> QED
  BY <1>3, <1>4 DEF HeldCodes

\* The steps that change only the running activation, and no frame or one field
\* of the newest: the frames stay with their activations.
SameStack ==
  /\ calls' \in Seq(Vars!Activation) /\ Len(calls') = Len(calls)
  /\ \A k \in 1 .. Len(calls) : /\ calls'[k].func = calls[k].func
                                /\ calls'[k].base = calls[k].base
                                /\ calls'[k].saved = calls[k].saved
  /\ \A k \in 1 .. Len(calls) : k # Len(calls) => calls'[k] = calls[k]
  /\ Len(var_frames') = Len(var_frames) /\ UNCHANGED <<decls, var_func>>

LEMMA StackKept ==
  ASSUME VarsInv, calls # <<>>, SameStack
  PROVE  Stacked' /\ calls' # <<>> /\ Frameless' = Frameless
<1>1. Len(calls) \in 1 .. Len(calls) /\ 1 \in 1 .. Len(calls) /\ calls' # <<>>
  BY VarsFacts DEF SameStack
<1>2. Frameless' = Frameless
  BY <1>1 DEF SameStack, Frameless
<1>3. \A k \in 2 .. Len(calls) : k \in 1 .. Len(calls) /\ k - 1 \in 1 .. Len(calls)
  BY VarsFacts
<1> QED
  BY <1>1, <1>2, <1>3, VarsFacts DEF SameStack, Stacked

\* A step that touches no exception code.
LEMMA CodesKept ==
  ASSUME VarsInv, calls # <<>>, SameStack,
         \A k \in 1 .. Len(var_frames) :
           var_frames'[k].vars[Vars!ExceptCode] = var_frames[k].vars[Vars!ExceptCode],
         globals'[Vars!ExceptCode] = globals[Vars!ExceptCode],
         \A b \in 1 .. Len(calls'[Len(calls)].blocks) :
           calls'[Len(calls)].blocks[b] # Vars!Try =>
             \E d \in 1 .. Len(Vars!Running.blocks) :
               Vars!Running.blocks[d] = calls'[Len(calls)].blocks[b]
  PROVE  CodesSeen'
<1>1. HeldCodes \subseteq HeldCodes'
  BY DEF HeldCodes, SameStack
<1>2. ASSUME NEW k \in 1 .. Len(calls'), NEW b \in 1 .. Len(calls'[k].blocks),
             calls'[k].blocks[b] # Vars!Try
      PROVE  \E d \in 1 .. Len(calls[k].blocks) : calls[k].blocks[d] = calls'[k].blocks[b]
  <2>1. CASE k = Len(calls)
    BY <1>2, <2>1, VarsFacts
  <2>2. CASE k # Len(calls)
    <3>1. calls'[k] = calls[k]
      BY <2>2, VarsFacts DEF SameStack
    <3> QED
      BY <1>2, <3>1
  <2> QED
    BY <2>1, <2>2
<1>3. ASSUME NEW k \in 1 .. Len(calls'), NEW b \in 1 .. Len(calls'[k].blocks),
             calls'[k].blocks[b] # Vars!Try
      PROVE  /\ calls'[k].blocks[b] \in HeldCodes'
             /\ \A j \in 1 .. Len(var_frames') :
                  j > calls'[k].base => var_frames'[j].vars[Vars!ExceptCode] = Absent
  <2>1. PICK d \in 1 .. Len(calls[k].blocks) : calls[k].blocks[d] = calls'[k].blocks[b]
    BY <1>2, <1>3
  <2>2. k \in 1 .. Len(calls) /\ calls'[k].base = calls[k].base
    BY DEF SameStack
  <2>3. /\ calls[k].blocks[d] \in HeldCodes
        /\ \A j \in 1 .. Len(var_frames) :
             j > calls[k].base => var_frames[j].vars[Vars!ExceptCode] = Absent
    BY <1>3, <2>1, <2>2, VarsFacts DEF CodesSeen
  <2> QED
    BY <1>1, <2>1, <2>2, <2>3 DEF SameStack
<1> QED
  BY <1>3 DEF CodesSeen

\* A step that declares in the running activation at most, and takes no value away.
LEMMA OwnKept ==
  ASSUME VarsInv, calls # <<>>, SameStack,
         \A k \in 1 .. Len(var_frames) : k # Len(var_frames) => var_frames'[k] = var_frames[k],
         Len(var_frames) # 0 => HasOwn(Len(calls))',
         Len(var_frames) = 0 => calls'[Len(calls)].declared \subseteq known',
         \A q \in Vars!Keys : staticVars[q] # Absent => staticVars'[q] # Absent,
         \A k \in 1 .. Len(var_frames) : var_frames'[k].keys[Vars!ExceptCode] = Vars!NoKey,
         known \subseteq known',
         \A n \in known' : n \in decls.autos[Vars!TopLevel] /\ globals'[n] # Absent
  PROVE  OwnNames'
<1>1. ASSUME NEW k \in 1 .. Len(calls'), calls'[k].base = 0
      PROVE  calls'[k].declared \subseteq known'
  <2>1. k \in 1 .. Len(calls) /\ calls[k].base = 0
    BY <1>1 DEF SameStack
  <2>2. CASE k = Len(calls)
    BY <2>1, <2>2, VarsFacts
  <2>3. CASE k # Len(calls)
    BY <2>1, <2>3, VarsFacts DEF SameStack, OwnNames
  <2> QED
    BY <2>2, <2>3
<1>2. ASSUME NEW k \in 1 .. Len(calls'), calls'[k].base # 0
      PROVE  HasOwn(k)'
  <2>1. k \in 1 .. Len(calls) /\ calls[k].base # 0 /\ calls[k].base \in 1 .. Len(var_frames)
    BY <1>2, VarsFacts DEF SameStack
  <2>2. CASE k = Len(calls)
    <3>1. HasOwn(Len(calls))' /\ k = Len(calls')
      BY <2>1, <2>2, VarsFacts DEF SameStack
    <3> QED
      BY <3>1 DEF HasOwn
  <2>3. CASE k # Len(calls)
    <3>1. HasOwn(k) /\ calls'[k] = calls[k]
      BY <2>1, <2>3, VarsFacts DEF SameStack, OwnNames
    <3>2. var_frames'[calls[k].base] = var_frames[calls[k].base]
      BY <2>1, <2>3, VarsFacts
    <3>3. \A n \in Names : <<KeyOf(calls[k].func), n>> \in Vars!Keys
      BY DEF Vars!Keys, KeyOf
    <3>4. decls' = decls
      BY DEF SameStack
    <3>5. ASSUME NEW n \in Names
          PROVE  staticVars[<<KeyOf(calls[k].func), n>>] # Absent
                   => staticVars'[<<KeyOf(calls[k].func), n>>] # Absent
      BY <3>3
    <3>6. ASSUME NEW n \in Names
          PROVE  LET a == calls[k]
                     fr == var_frames[a.base]
                 IN /\ fr.keys[n] # Vars!NoKey => /\ n \in decls.statics[a.func]
                                                  /\ fr.keys[n] = <<KeyOf(a.func), n>>
                                                  /\ staticVars'[<<KeyOf(a.func), n>>] # Absent
                    /\ fr.vars[n] # Absent => n \in decls.autos[a.func]
                    /\ n \in a.declared => fr.keys[n] # Vars!NoKey \/ fr.vars[n] # Absent
      BY <3>1, <3>5 DEF HasOwn
    <3> QED
      BY <3>1, <3>2, <3>4, <3>6 DEF HasOwn
  <2> QED
    BY <2>2, <2>3
<1> QED
  BY <1>1, <1>2 DEF OwnNames, SameStack

\* What the newest frame has, now and in the next state.
LEMMA TopOwns ==
  ASSUME VarsInv, calls # <<>>, Len(var_frames) # 0, NEW m \in Names
  PROVE  LET fr == var_frames[Len(var_frames)] IN
         /\ fr.keys[m] # Vars!NoKey => /\ m \in decls.statics[Vars!Running.func]
                                       /\ fr.keys[m] = <<var_func, m>>
                                       /\ staticVars[<<var_func, m>>] # Absent
         /\ fr.vars[m] # Absent => m \in decls.autos[Vars!Running.func]
         /\ m \in Vars!Running.declared => fr.keys[m] # Vars!NoKey \/ fr.vars[m] # Absent
<1>1. Len(calls) \in 1 .. Len(calls) /\ calls[Len(calls)].base = Len(var_frames)
      /\ calls[Len(calls)] = Vars!Running /\ var_func = KeyOf(Vars!Running.func)
  BY VarsFacts
<1>2. HasOwn(Len(calls))
  BY <1>1, VarsFacts DEF OwnNames
<1> QED
  BY <1>1, <1>2 DEF HasOwn

LEMMA TopOwnsNext ==
  ASSUME VarsInv, calls # <<>>, SameStack, Len(var_frames) # 0,
         \A m \in Names : LET fr == var_frames'[Len(var_frames)] IN
           /\ fr.keys[m] # Vars!NoKey => /\ m \in decls.statics[Vars!Running.func]
                                         /\ fr.keys[m] = <<var_func, m>>
                                         /\ staticVars'[<<var_func, m>>] # Absent
           /\ fr.vars[m] # Absent => m \in decls.autos[Vars!Running.func]
           /\ m \in calls'[Len(calls)].declared => fr.keys[m] # Vars!NoKey \/ fr.vars[m] # Absent
  PROVE  HasOwn(Len(calls))'
<1>1. Len(calls) \in 1 .. Len(calls) /\ Len(calls') = Len(calls)
      /\ calls'[Len(calls)].base = Len(var_frames)
      /\ calls'[Len(calls)].func = Vars!Running.func /\ var_func = KeyOf(Vars!Running.func)
      /\ decls' = decls
  BY VarsFacts DEF SameStack
<1> QED
  BY <1>1 DEF HasOwn

\* Declaring a variable.
LEMMA DeclaredIs ==
  ASSUME VarsInv, calls # <<>>, NEW n \in Names, Vars!Declared(n),
         Len(var_frames') = Len(var_frames), UNCHANGED <<decls, var_func>>
  PROVE  /\ SameStack /\ known' \subseteq Names
         /\ calls'[Len(calls)].blocks = Vars!Running.blocks
         /\ calls'[Len(calls)].declared = Vars!Running.declared \cup {n}
         /\ known' = IF Vars!Running.func = Vars!TopLevel THEN known \cup {n} ELSE known
<1> DEFINE a == [Vars!Running EXCEPT !.declared = @ \cup {n}]
<1>1. /\ a \in Vars!Activation /\ a.func = Vars!Running.func /\ a.base = Vars!Running.base
      /\ a.saved = Vars!Running.saved /\ a.blocks = Vars!Running.blocks
      /\ a.declared = Vars!Running.declared \cup {n}
  BY VarsFacts DEF Vars!Activation
<1>2. /\ calls' = [calls EXCEPT ![Len(calls)] = a]
      /\ known' = IF Vars!Running.func = Vars!TopLevel THEN known \cup {n} ELSE known
  BY DEF Vars!Declared, Vars!Update
<1> HIDE DEF a
<1>3. /\ calls' \in Seq(Vars!Activation) /\ Len(calls') = Len(calls) /\ calls'[Len(calls)] = a
      /\ \A k \in 1 .. Len(calls) : k # Len(calls) => calls'[k] = calls[k]
  BY <1>1, <1>2, SetTop, VarsFacts
<1>4. SameStack
  BY <1>1, <1>3, VarsFacts DEF SameStack
<1> QED
  BY <1>1, <1>2, <1>3, <1>4, VarsFacts DEF Vars!TypeOK

LEMMA DeclareKeeps ==
  ASSUME VarsInv, NEW n \in Names, NEW v \in Vars!Values, Vars!Declare(n, v)
  PROVE  VarsInv'
<1>1. /\ calls # <<>> /\ n \in decls.autos[Vars!Running.func] /\ Vars!Declared(n)
      /\ UNCHANGED <<decls, staticVars, var_func, seen>>
  BY DEF Vars!Declare
<1>2. n \in Vars!Stored /\ n # Vars!ExceptCode /\ v # Absent
  BY BasicNames
<1>3. CASE Len(var_frames) # 0
  <2>1. var_frames' = SetVariable(var_frames, Len(var_frames), n, v) /\ UNCHANGED globals
    BY <1>1, <1>3 DEF Vars!Declare, SetVariable
  <2>2. Len(var_frames) \in 1 .. Len(var_frames) /\ var_frames \in Seq(Vars!Frame)
    BY <1>1, <1>3, VarsFacts
  <2>3. /\ var_frames' \in Seq(Vars!Frame) /\ Len(var_frames') = Len(var_frames)
        /\ \A j \in 1 .. Len(var_frames) : var_frames'[j].keys = var_frames[j].keys
        /\ \A j \in 1 .. Len(var_frames) : j # Len(var_frames) => var_frames'[j] = var_frames[j]
        /\ \A m \in Vars!Stored : var_frames'[Len(var_frames)].vars[m] =
                IF m = n THEN v ELSE var_frames[Len(var_frames)].vars[m]
    <3> DEFINE l == Len(var_frames)
               t == SetVariable(var_frames, l, n, v)
    <3>1. l \in 1 .. l /\ var_frames' = t
      BY <2>1, <2>2
    <3> HIDE DEF l
    <3>2. /\ t \in Seq(Vars!Frame) /\ Len(t) = Len(var_frames)
          /\ \A j \in 1 .. Len(var_frames) : t[j].keys = var_frames[j].keys
          /\ \A j \in 1 .. Len(var_frames) : j # l => t[j] = var_frames[j]
          /\ \A m \in Vars!Stored : t[l].vars[m] =
                  IF m = n THEN v ELSE var_frames[l].vars[m]
      <4>1. l \in 1 .. Len(var_frames)
        BY <3>1 DEF l
      <4>2. t \in Seq(Vars!Frame) /\ Len(t) = Len(var_frames)
        BY <1>2, <2>2, <4>1, SetVariableIs
      <4>3. \A j \in 1 .. Len(var_frames) : t[j].keys = var_frames[j].keys
        BY <1>2, <2>2, <4>1, SetVariableIs
      <4>4. \A j \in 1 .. Len(var_frames) : j # l => t[j] = var_frames[j]
        BY <1>2, <2>2, <4>1, SetVariableIs
      <4>5. \A m \in Vars!Stored : t[l].vars[m] =
                IF m = n THEN v ELSE var_frames[l].vars[m]
        BY <1>2, <2>2, <4>1, SetVariableIs
      <4> QED
        BY <4>2, <4>3, <4>4, <4>5
    <3> HIDE DEF t
    <3> QED
      BY <3>1, <3>2 DEF l
  <2>5. /\ SameStack /\ known' = known
        /\ calls'[Len(calls)].blocks = Vars!Running.blocks
        /\ calls'[Len(calls)].declared = Vars!Running.declared \cup {n}
    <3>1. Len(var_frames') = Len(var_frames)
      BY <2>3
    <3>2. Vars!Running.func # Vars!TopLevel
      BY <1>1, <1>3, VarsFacts
    <3>3. /\ SameStack
          /\ calls'[Len(calls)].blocks = Vars!Running.blocks
          /\ calls'[Len(calls)].declared = Vars!Running.declared \cup {n}
          /\ known' = IF Vars!Running.func = Vars!TopLevel THEN known \cup {n} ELSE known
      BY <1>1, <3>1, DeclaredIs
    <3> QED
      BY <3>2, <3>3
  <2>6. HasOwn(Len(calls))'
    <3>1. ASSUME NEW m \in Names
          PROVE  LET fr == var_frames'[Len(var_frames)] IN
                 /\ fr.keys[m] # Vars!NoKey => /\ m \in decls.statics[Vars!Running.func]
                                               /\ fr.keys[m] = <<var_func, m>>
                                               /\ staticVars'[<<var_func, m>>] # Absent
                 /\ fr.vars[m] # Absent => m \in decls.autos[Vars!Running.func]
                 /\ m \in calls'[Len(calls)].declared
                      => fr.keys[m] # Vars!NoKey \/ fr.vars[m] # Absent
      <4>1. m \in Vars!Stored
        BY BasicNames
      <4> QED
        BY <1>1, <1>2, <1>3, <2>2, <2>3, <2>5, <4>1, TopOwns
    <3> QED
      BY <1>1, <1>3, <2>5, <3>1, TopOwnsNext
  <2>7. OwnNames'
    <3>1. /\ \A k \in 1 .. Len(var_frames) : var_frames'[k].keys[Vars!ExceptCode] = Vars!NoKey
          /\ \A m \in known' : m \in decls.autos[Vars!TopLevel] /\ globals'[m] # Absent
      BY <1>1, <2>1, <2>3, <2>5, VarsFacts DEF OwnNames
    <3>2. \A q \in Vars!Keys : staticVars[q] # Absent => staticVars'[q] # Absent
      BY <1>1
    <3> QED
      BY <1>1, <1>3, <2>3, <2>5, <2>6, <3>1, <3>2, OwnKept
  <2>8. CodesSeen'
    BY <1>1, <1>2, <2>1, <2>2, <2>3, <2>5, CodesKept, BasicNames
  <2>9. Vars!TypeOK' /\ Tame(decls)'
    BY <1>1, <2>1, <2>3, <2>5, VarsFacts DEF Vars!TypeOK, SameStack
  <2> QED
    BY <1>1, <2>5, <2>7, <2>8, <2>9, StackKept DEF VarsInv
<1>4. CASE Len(var_frames) = 0
  <2>1. var_frames' = var_frames /\ globals' = [globals EXCEPT ![n] = v]
    BY <1>1, <1>4, VarsFacts DEF Vars!Declare
  <2>2. /\ globals' \in [Vars!Stored -> Vars!Values \cup {Absent}]
        /\ globals'[Vars!ExceptCode] = globals[Vars!ExceptCode]
        /\ \A m \in Names : globals'[m] = IF m = n THEN v ELSE globals[m]
    BY <1>1, <1>2, <2>1, BasicNames, VarsFacts DEF Vars!TypeOK
  <2>3. /\ SameStack /\ known' = known \cup {n} /\ known \subseteq Names
        /\ calls'[Len(calls)].blocks = Vars!Running.blocks
        /\ calls'[Len(calls)].declared = Vars!Running.declared \cup {n}
        /\ Vars!Running.func = Vars!TopLevel
    BY <1>1, <1>4, <2>1, DeclaredIs, VarsFacts DEF Vars!TypeOK
  <2>4. Vars!Running.declared \subseteq known
    BY <1>1, <1>4, VarsFacts DEF OwnNames
  <2>5. \A m \in known' : m \in decls.autos[Vars!TopLevel] /\ globals'[m] # Absent
    BY <1>1, <1>2, <2>2, <2>3, VarsFacts DEF OwnNames
  <2>6. OwnNames'
    BY <1>1, <1>4, <2>1, <2>3, <2>4, <2>5, OwnKept, VarsFacts DEF OwnNames
  <2>7. CodesSeen'
    BY <1>1, <2>1, <2>2, <2>3, CodesKept
  <2>8. Vars!TypeOK' /\ Tame(decls)'
    BY <1>1, <2>1, <2>2, <2>3, VarsFacts DEF Vars!TypeOK, SameStack
  <2> QED
    BY <1>1, <2>3, <2>6, <2>7, <2>8, StackKept DEF VarsInv
<1> QED
  BY <1>3, <1>4

LEMMA DeclareStaticKeeps ==
  ASSUME VarsInv, NEW n \in Names, NEW v \in Vars!Values, Vars!DeclareStatic(n, v)
  PROVE  VarsInv'
<1> DEFINE key == <<var_func, n>>
           L == Len(var_frames)
<1>1. /\ calls # <<>> /\ n \in decls.statics[Vars!Running.func] /\ Vars!Declared(n)
      /\ staticVars' = [staticVars EXCEPT ![key] = IF @ = Absent THEN v ELSE @]
      /\ UNCHANGED <<decls, globals, var_func, seen>>
  BY DEF Vars!DeclareStatic
<1>2. n \in Vars!Stored /\ n # Vars!ExceptCode /\ v # Absent
  BY BasicNames
<1>3. Vars!Running.func # Vars!TopLevel /\ Len(var_frames) # 0 /\ var_frames # <<>>
  BY <1>1, VarsFacts DEF Tame
<1>4. key \in Vars!Keys /\ staticVars \in [Vars!Keys -> Vars!Values \cup {Absent}]
  BY <1>1, VarsFacts DEF Vars!Keys, Vars!TypeOK
<1>5. /\ staticVars' \in [Vars!Keys -> Vars!Values \cup {Absent}]
      /\ \A q \in Vars!Keys : staticVars[q] # Absent => staticVars'[q] # Absent
      /\ staticVars'[key] # Absent
  <2> HIDE DEF key
  <2> QED
    BY <1>1, <1>2, <1>4
<1>6. var_frames' = SetKey(var_frames, L, n, key)
  BY <1>1, <1>3 DEF Vars!DeclareStatic, SetKey
<1>7. L \in 1 .. L /\ var_frames \in Seq(Vars!Frame)
  BY <1>1, <1>3, VarsFacts
<1>8. /\ var_frames' \in Seq(Vars!Frame) /\ Len(var_frames') = L
      /\ \A j \in 1 .. L : var_frames'[j].vars = var_frames[j].vars
      /\ \A j \in 1 .. L : j # L => var_frames'[j] = var_frames[j]
      /\ \A m \in Vars!Stored : var_frames'[L].keys[m] =
              IF m = n THEN key ELSE var_frames[L].keys[m]
  <2> HIDE DEF key
  <2> QED
    BY <1>2, <1>4, <1>6, <1>7, SetKeyIs
<1>9. /\ SameStack /\ known' = known
      /\ calls'[Len(calls)].blocks = Vars!Running.blocks
      /\ calls'[Len(calls)].declared = Vars!Running.declared \cup {n}
  BY <1>1, <1>3, <1>8, DeclaredIs
<1>10. HasOwn(Len(calls))'
  <2>1. ASSUME NEW m \in Names
        PROVE  LET fr == var_frames'[Len(var_frames)] IN
               /\ fr.keys[m] # Vars!NoKey => /\ m \in decls.statics[Vars!Running.func]
                                             /\ fr.keys[m] = <<var_func, m>>
                                             /\ staticVars'[<<var_func, m>>] # Absent
               /\ fr.vars[m] # Absent => m \in decls.autos[Vars!Running.func]
               /\ m \in calls'[Len(calls)].declared
                    => fr.keys[m] # Vars!NoKey \/ fr.vars[m] # Absent
    <3>1. m \in Vars!Stored /\ <<var_func, m>> \in Vars!Keys
      BY <1>1, <1>4, BasicNames DEF Vars!Keys
    <3>2. key # Vars!NoKey
      BY DEF Vars!NoKey
    <3> QED
      BY <1>1, <1>3, <1>5, <1>7, <1>8, <1>9, <3>1, <3>2, TopOwns
  <2> QED
    BY <1>1, <1>3, <1>9, <2>1, TopOwnsNext
<1>11. \A k \in 1 .. L : var_frames'[k].keys[Vars!ExceptCode] = Vars!NoKey
  <2>1. \A k \in 1 .. L : var_frames[k].keys[Vars!ExceptCode] = Vars!NoKey
    BY <1>1, VarsFacts DEF OwnNames
  <2> QED
    BY <1>2, <1>7, <1>8, <2>1, BasicNames
<1>12. OwnNames'
  <2>1. \A m \in known' : m \in decls.autos[Vars!TopLevel] /\ globals'[m] # Absent
    BY <1>1, <1>9, VarsFacts DEF OwnNames
  <2> QED
    BY <1>1, <1>3, <1>5, <1>8, <1>9, <1>10, <1>11, <2>1, OwnKept
<1>13. CodesSeen'
  BY <1>1, <1>8, <1>9, CodesKept
<1>14. Vars!TypeOK' /\ Tame(decls)'
  BY <1>1, <1>5, <1>8, <1>9, VarsFacts DEF Vars!TypeOK, SameStack
<1> QED
  BY <1>1, <1>9, <1>12, <1>13, <1>14, StackKept DEF VarsInv

\* Where a value goes that is assigned to a name.
InFrame(n, v) ==
  /\ Len(var_frames) # 0 /\ UNCHANGED <<globals, staticVars>>
  /\ var_frames[Len(var_frames)].keys[n] = Vars!NoKey
  /\ var_frames[Len(var_frames)].vars[n] # Absent
  /\ var_frames' = [var_frames EXCEPT ![Len(var_frames)].vars[n] = v]
InStatic(n, v) ==
  /\ Len(var_frames) # 0 /\ UNCHANGED <<globals, var_frames>>
  /\ var_frames[Len(var_frames)].keys[n] = <<var_func, n>>
  /\ n \in decls.statics[Vars!Running.func]
  /\ staticVars[<<var_func, n>>] # Absent
  /\ staticVars' = [staticVars EXCEPT ![<<var_func, n>>] = v]
InGlobal(n, v) ==
  /\ globals[n] # Absent /\ UNCHANGED <<staticVars, var_frames>>
  /\ \A k \in 1 .. Len(var_frames) : ~ Vars!Holds(var_frames[k], n)
  /\ globals' = [globals EXCEPT ![n] = v]

LEMMA AssignIs ==
  ASSUME VarsInv, NEW n \in Names, NEW v \in Vars!Values, Vars!Assign(n, v)
  PROVE  InFrame(n, v) \/ InStatic(n, v) \/ InGlobal(n, v)
<1>1. /\ calls # <<>> /\ n \in Vars!Running.declared \cup known
      /\ Vars!setVar(n, v)
  BY DEF Vars!Assign, Vars!Resolves
<1>2. CASE /\ Len(var_frames) # 0
           /\ Vars!Holders(n) # {} /\ Vars!Newest(n) = Len(var_frames)
           /\ Vars!Holds(var_frames[Len(var_frames)], n)
  <2>1. Vars!SetIn(Len(var_frames), n, v)
    BY <1>1, <1>2 DEF Vars!setVar
  <2>2. CASE var_frames[Len(var_frames)].keys[n] = Vars!NoKey
    BY <1>2, <2>1, <2>2 DEF Vars!SetIn, Vars!Holds, InFrame
  <2>3. CASE var_frames[Len(var_frames)].keys[n] # Vars!NoKey
    BY <1>1, <1>2, <2>1, <2>3, TopOwns DEF Vars!SetIn, InStatic
  <2> QED
    BY <2>2, <2>3
<1>3. CASE /\ Vars!Holders(n) = {} /\ globals[n] # Absent
           /\ \A k \in 1 .. Len(var_frames) : ~ Vars!Holds(var_frames[k], n)
  BY <1>1, <1>3 DEF Vars!setVar, Vars!SetGlobal, InGlobal
<1> QED
  BY <1>1, <1>2, <1>3, NamesResolve

LEMMA AssignKeeps ==
  ASSUME VarsInv, NEW n \in Names, NEW v \in Vars!Values, Vars!Assign(n, v)
  PROVE  VarsInv'
<1> DEFINE L == Len(var_frames)
<1>1. /\ calls # <<>> /\ UNCHANGED <<decls, var_func, calls, known, seen>>
  BY DEF Vars!Assign, Vars!Resolves
<1>2. n \in Vars!Stored /\ n # Vars!ExceptCode /\ v # Absent
  BY BasicNames
<1>3. Len(calls) \in 1 .. Len(calls) /\ Vars!Running = calls[Len(calls)]
      /\ L \in Nat /\ var_frames \in Seq(Vars!Frame)
  BY <1>1, VarsFacts
<1>4. Len(var_frames') = L => SameStack
  BY <1>1, VarsFacts DEF SameStack
<1>5. L = 0 => calls'[Len(calls)].declared \subseteq known'
  BY <1>1, <1>3, VarsFacts DEF OwnNames
<1>6. /\ \A k \in 1 .. L : var_frames[k].keys[Vars!ExceptCode] = Vars!NoKey
      /\ \A m \in known : m \in decls.autos[Vars!TopLevel] /\ globals[m] # Absent
  BY <1>1, VarsFacts DEF OwnNames
<1>7. CASE InFrame(n, v)
  <2>1. L \in 1 .. L
    BY <1>3, <1>7 DEF InFrame
  <2>2. /\ var_frames' \in Seq(Vars!Frame) /\ Len(var_frames') = L
        /\ \A j \in 1 .. L : var_frames'[j].keys = var_frames[j].keys
        /\ \A j \in 1 .. L : j # L => var_frames'[j] = var_frames[j]
        /\ \A m \in Vars!Stored : var_frames'[L].vars[m] =
                IF m = n THEN v ELSE var_frames[L].vars[m]
    <3>1. var_frames' = SetVariable(var_frames, L, n, v)
      BY <1>7 DEF InFrame, SetVariable
    <3> QED
      BY <1>2, <1>3, <2>1, <3>1, SetVariableIs
  <2>3. HasOwn(Len(calls))'
    <3>1. ASSUME NEW m \in Names
          PROVE  LET fr == var_frames'[Len(var_frames)] IN
                 /\ fr.keys[m] # Vars!NoKey => /\ m \in decls.statics[Vars!Running.func]
                                               /\ fr.keys[m] = <<var_func, m>>
                                               /\ staticVars'[<<var_func, m>>] # Absent
                 /\ fr.vars[m] # Absent => m \in decls.autos[Vars!Running.func]
                 /\ m \in calls'[Len(calls)].declared
                      => fr.keys[m] # Vars!NoKey \/ fr.vars[m] # Absent
      <4>1. m \in Vars!Stored
        BY BasicNames
      <4>2. /\ L # 0 /\ staticVars' = staticVars /\ calls' = calls
            /\ var_frames[L].vars[n] # Absent /\ var_frames[L].keys[n] = Vars!NoKey
        BY <1>1, <1>7 DEF InFrame
      <4> QED
        BY <1>1, <1>2, <1>3, <2>1, <2>2, <4>1, <4>2, TopOwns
    <3> QED
      BY <1>1, <1>4, <1>7, <2>2, <3>1, TopOwnsNext DEF InFrame
  <2>4. OwnNames'
    BY <1>1, <1>4, <1>5, <1>6, <1>7, <2>2, <2>3, OwnKept DEF InFrame
  <2>5. CodesSeen'
    <3>1. \A k \in 1 .. L : var_frames'[k].vars[Vars!ExceptCode]
            = var_frames[k].vars[Vars!ExceptCode]
      BY <1>2, <2>1, <2>2, BasicNames
    <3> QED
      BY <1>1, <1>3, <1>4, <1>7, <2>2, <3>1, CodesKept DEF InFrame
  <2>6. Vars!TypeOK' /\ Tame(decls)'
    BY <1>1, <1>7, <2>2, VarsFacts DEF Vars!TypeOK, InFrame
  <2> QED
    BY <1>1, <1>4, <2>2, <2>4, <2>5, <2>6, StackKept DEF VarsInv
<1>8. CASE InStatic(n, v)
  <2>1. <<var_func, n>> \in Vars!Keys /\ staticVars \in [Vars!Keys -> Vars!Values \cup {Absent}]
    BY <1>1, VarsFacts DEF Vars!Keys, Vars!TypeOK
  <2>2. /\ staticVars' \in [Vars!Keys -> Vars!Values \cup {Absent}]
        /\ \A q \in Vars!Keys : staticVars[q] # Absent => staticVars'[q] # Absent
    BY <1>2, <1>8, <2>1 DEF InStatic
  <2>3. HasOwn(Len(calls))'
    <3>1. ASSUME NEW m \in Names
          PROVE  LET fr == var_frames'[Len(var_frames)] IN
                 /\ fr.keys[m] # Vars!NoKey => /\ m \in decls.statics[Vars!Running.func]
                                               /\ fr.keys[m] = <<var_func, m>>
                                               /\ staticVars'[<<var_func, m>>] # Absent
                 /\ fr.vars[m] # Absent => m \in decls.autos[Vars!Running.func]
                 /\ m \in calls'[Len(calls)].declared
                      => fr.keys[m] # Vars!NoKey \/ fr.vars[m] # Absent
      <4>1. <<var_func, m>> \in Vars!Keys
        BY <2>1 DEF Vars!Keys
      <4>2. L # 0 /\ var_frames' = var_frames
        BY <1>8 DEF InStatic
      <4>3. /\ staticVars[<<var_func, m>>] # Absent => staticVars'[<<var_func, m>>] # Absent
            /\ calls'[Len(calls)].declared = Vars!Running.declared
        BY <1>1, <1>3, <2>2, <4>1
      <4> DEFINE fr == var_frames[Len(var_frames)]
      <4>4. /\ fr.keys[m] # Vars!NoKey => /\ m \in decls.statics[Vars!Running.func]
                                          /\ fr.keys[m] = <<var_func, m>>
                                          /\ staticVars[<<var_func, m>>] # Absent
            /\ fr.vars[m] # Absent => m \in decls.autos[Vars!Running.func]
            /\ m \in Vars!Running.declared => fr.keys[m] # Vars!NoKey \/ fr.vars[m] # Absent
        BY <1>1, <4>2, TopOwns
      <4>5. var_frames'[Len(var_frames)] = fr
        BY <4>2
      <4> HIDE DEF fr
      <4> QED
        BY <4>3, <4>4, <4>5
    <3> QED
      BY <1>1, <1>4, <1>8, <3>1, TopOwnsNext DEF InStatic
  <2>4. OwnNames'
    BY <1>1, <1>4, <1>5, <1>6, <1>8, <2>2, <2>3, OwnKept DEF InStatic
  <2>5. CodesSeen'
    BY <1>1, <1>3, <1>4, <1>8, CodesKept DEF InStatic
  <2>6. Vars!TypeOK' /\ Tame(decls)'
    BY <1>1, <1>8, <2>2, VarsFacts DEF Vars!TypeOK, InStatic
  <2> QED
    BY <1>1, <1>4, <1>8, <2>4, <2>5, <2>6, StackKept DEF VarsInv, InStatic
<1>9. CASE InGlobal(n, v)
  <2>1. /\ globals' \in [Vars!Stored -> Vars!Values \cup {Absent}]
        /\ globals'[Vars!ExceptCode] = globals[Vars!ExceptCode]
        /\ \A m \in Names : globals'[m] = IF m = n THEN v ELSE globals[m]
    BY <1>1, <1>2, <1>9, BasicNames, VarsFacts DEF Vars!TypeOK, InGlobal
  <2>2. L # 0 => HasOwn(Len(calls))'
    BY <1>1, <1>3, <1>9, VarsFacts DEF InGlobal, HasOwn, OwnNames
  <2>3. known \subseteq Names
    BY <1>1, VarsFacts DEF Vars!TypeOK
  <2>4. OwnNames'
    BY <1>1, <1>2, <1>4, <1>5, <1>6, <1>9, <2>1, <2>2, <2>3, OwnKept DEF InGlobal
  <2>5. CodesSeen'
    BY <1>1, <1>3, <1>4, <1>9, <2>1, CodesKept DEF InGlobal
  <2>6. Vars!TypeOK' /\ Tame(decls)'
    BY <1>1, <1>9, <2>1, VarsFacts DEF Vars!TypeOK, InGlobal
  <2> QED
    BY <1>1, <1>4, <1>9, <2>4, <2>5, <2>6, StackKept DEF VarsInv, InGlobal
<1> QED
  BY <1>7, <1>8, <1>9, AssignIs

\* Steps that read, or do nothing.
LEMMA StandsStill ==
  ASSUME VarsInv, UNCHANGED <<decls, var_frames, globals, staticVars, var_func, calls, known>>,
         seen' \in Vars!Values
  PROVE  VarsInv'
<1>1. Vars!TypeOK' /\ Tame(decls)'
  BY DEF VarsInv, Vars!TypeOK
<1>2. ASSUME calls # <<>> PROVE Stacked'
  BY <1>2 DEF VarsInv, Stacked, Frameless
<1>3. ASSUME calls # <<>> PROVE CodesSeen'
  <2>1. HeldCodes' = HeldCodes
    BY DEF HeldCodes
  <2> QED
    BY <1>3, <2>1 DEF VarsInv, CodesSeen
<1>4. ASSUME calls # <<>> PROVE OwnNames'
  <2>1. \A k : HasOwn(k)' = HasOwn(k)
    BY DEF HasOwn
  <2> QED
    BY <1>4, <2>1 DEF VarsInv, OwnNames
<1> QED
  BY <1>1, <1>2, <1>3, <1>4 DEF VarsInv

LEMMA GetVarType ==
  ASSUME VarsInv, calls # <<>>, NEW n \in Vars!Stored
  PROVE  Vars!getVar(n) \in Vars!Values
<1>1. /\ globals \in [Vars!Stored -> Vars!Values \cup {Absent}]
      /\ staticVars \in [Vars!Keys -> Vars!Values \cup {Absent}]
      /\ var_frames \in Seq(Vars!Frame)
  BY VarsFacts DEF Vars!TypeOK
<1>2. \A v \in Vars!Values \cup {Absent} : Vars!Default(v) \in Vars!Values
  BY BasicNames DEF Vars!Default
<1>3. CASE Vars!Holders(n) = {}
  BY <1>1, <1>2, <1>3 DEF Vars!getVar
<1>4. CASE Vars!Holders(n) # {}
  <2> DEFINE fr == var_frames[Vars!Newest(n)]
  <2>1. Vars!Newest(n) \in 1 .. Len(var_frames) /\ Vars!Holds(fr, n)
    BY <1>1, <1>4, NewestIs
  <2>2. fr \in Vars!Frame
    BY <1>1, <2>1
  <2>3. fr.keys[n] \in Vars!Keys \cup {Vars!NoKey} /\ fr.vars[n] \in Vars!Values \cup {Absent}
    BY <2>2 DEF Vars!Frame
  <2>4. Vars!getVar(n) = IF fr.keys[n] # Vars!NoKey THEN Vars!Default(staticVars[fr.keys[n]])
                         ELSE fr.vars[n]
    BY <1>4 DEF Vars!getVar
  <2> HIDE DEF fr
  <2>5. CASE fr.keys[n] # Vars!NoKey
    BY <1>1, <1>2, <2>3, <2>4, <2>5
  <2>6. CASE fr.keys[n] = Vars!NoKey
    BY <2>1, <2>3, <2>4, <2>6 DEF Vars!Holds
  <2> QED
    BY <2>5, <2>6
<1> QED
  BY <1>3, <1>4

LEMMA ReadsKeep ==
  ASSUME VarsInv,
         (\E n \in Names : Vars!Read(n)) \/ Vars!ReadCode \/ Vars!Ended \/ UNCHANGED Vars!vars
  PROVE  VarsInv'
<1>1. UNCHANGED <<decls, var_frames, globals, staticVars, var_func, calls, known>>
  BY DEF Vars!Read, Vars!ReadCode, Vars!Ended, Vars!vars
<1>2. seen' \in Vars!Values
  <2>1. ASSUME NEW n \in Names, Vars!Read(n) PROVE seen' \in Vars!Values
    BY <2>1, GetVarType, BasicNames DEF Vars!Read, Vars!Resolves
  <2>2. ASSUME Vars!ReadCode PROVE seen' \in Vars!Values
    BY <2>2, GetVarType, BasicNames DEF Vars!ReadCode
  <2>3. ASSUME UNCHANGED Vars!vars PROVE seen' \in Vars!Values
    BY <2>3 DEF Vars!vars, VarsInv, Vars!TypeOK
  <2> QED
    BY <2>1, <2>2, <2>3 DEF Vars!Ended
<1> QED
  BY <1>1, <1>2, StandsStill

LEMMA BlocksAre ==
  ASSUME NEW a \in Vars!Activation, NEW s \in Seq(Vars!Values)
  PROVE  [a EXCEPT !.blocks = s] \in Vars!Activation
BY DEF Vars!Activation

\* A step that changes only the blocks of the running activation.
LEMMA BlocksChange ==
  ASSUME VarsInv, calls # <<>>, NEW s \in Seq(Vars!Values),
         Vars!Update([Vars!Running EXCEPT !.blocks = s]), UNCHANGED <<decls, var_func>>,
         Len(var_frames') = Len(var_frames)
  PROVE  /\ SameStack /\ calls'[Len(calls)].blocks = s
         /\ calls'[Len(calls)].declared = Vars!Running.declared
<1> DEFINE a == [Vars!Running EXCEPT !.blocks = s]
<1>1. /\ a \in Vars!Activation /\ a.func = Vars!Running.func /\ a.base = Vars!Running.base
      /\ a.saved = Vars!Running.saved /\ a.blocks = s /\ a.declared = Vars!Running.declared
  BY VarsFacts DEF Vars!Activation
<1>2. calls' = [calls EXCEPT ![Len(calls)] = a]
  BY DEF Vars!Update
<1> HIDE DEF a
<1>3. /\ calls' \in Seq(Vars!Activation) /\ Len(calls') = Len(calls) /\ calls'[Len(calls)] = a
      /\ \A k \in 1 .. Len(calls) : k # Len(calls) => calls'[k] = calls[k]
  BY <1>1, <1>2, SetTop, VarsFacts
<1>4. SameStack
  BY <1>1, <1>3, VarsFacts DEF SameStack
<1> QED
  BY <1>1, <1>3, <1>4

\* A step that changes blocks only, and possibly exception codes.
LEMMA NamesStay ==
  ASSUME VarsInv, calls # <<>>, SameStack, known' = known, staticVars' = staticVars, seen' = seen,
         calls'[Len(calls)].declared = Vars!Running.declared,
         var_frames' \in Seq(Vars!Frame),
         globals' \in [Vars!Stored -> Vars!Values \cup {Absent}],
         \A m \in Names : globals'[m] = globals[m],
         \A k \in 1 .. Len(var_frames) :
           /\ var_frames'[k].keys = var_frames[k].keys
           /\ \A m \in Names : var_frames'[k].vars[m] = var_frames[k].vars[m]
  PROVE  Vars!TypeOK' /\ Tame(decls)' /\ OwnNames' /\ Stacked' /\ calls' # <<>>
<1>1. Vars!TypeOK' /\ Tame(decls)'
  BY VarsFacts DEF Vars!TypeOK, SameStack
<1>2. \A k \in 1 .. Len(calls) : calls'[k].declared = calls[k].declared
  BY VarsFacts DEF SameStack
<1>3. ASSUME NEW k \in 1 .. Len(calls), calls[k].base # 0
      PROVE  HasOwn(k)'
  <2> DEFINE f == calls[k].func
             fr == var_frames[calls[k].base]
             gr == var_frames'[calls[k].base]
  <2>1. HasOwn(k) /\ calls[k].base \in 1 .. Len(var_frames)
    BY <1>3, VarsFacts DEF OwnNames
  <2>2. /\ gr.keys = fr.keys /\ \A m \in Names : gr.vars[m] = fr.vars[m]
    BY <2>1
  <2>3. /\ calls'[k].func = f /\ calls'[k].base = calls[k].base /\ decls' = decls
        /\ calls'[k].declared = calls[k].declared
    BY <1>2 DEF SameStack
  <2>4. \A n \in Names :
          /\ fr.keys[n] # Vars!NoKey => /\ n \in decls.statics[f]
                                        /\ fr.keys[n] = <<KeyOf(f), n>>
                                        /\ staticVars[<<KeyOf(f), n>>] # Absent
          /\ fr.vars[n] # Absent => n \in decls.autos[f]
          /\ n \in calls[k].declared => fr.keys[n] # Vars!NoKey \/ fr.vars[n] # Absent
    BY <2>1 DEF HasOwn
  <2>5. \A n \in Names :
          /\ gr.keys[n] # Vars!NoKey => /\ n \in decls'.statics[f]
                                        /\ gr.keys[n] = <<KeyOf(f), n>>
                                        /\ staticVars'[<<KeyOf(f), n>>] # Absent
          /\ gr.vars[n] # Absent => n \in decls'.autos[f]
          /\ n \in calls'[k].declared => gr.keys[n] # Vars!NoKey \/ gr.vars[n] # Absent
    <3> HIDE DEF f, fr, gr
    <3> QED
      BY <2>2, <2>3, <2>4
  <2> QED
    BY <2>3, <2>5 DEF HasOwn
<1>4. OwnNames'
  <2>1. ASSUME NEW k \in 1 .. Len(calls')
        PROVE  IF calls'[k].base = 0 THEN calls'[k].declared \subseteq known' ELSE HasOwn(k)'
    BY <1>2, <1>3, VarsFacts DEF SameStack, OwnNames
  <2>2. \A k \in 1 .. Len(var_frames') : var_frames'[k].keys[Vars!ExceptCode] = Vars!NoKey
    BY VarsFacts DEF SameStack, OwnNames
  <2>3. \A n \in known' : n \in decls'.autos[Vars!TopLevel] /\ globals'[n] # Absent
    BY VarsFacts DEF SameStack, OwnNames, Vars!TypeOK
  <2> QED
    BY <2>1, <2>2, <2>3 DEF OwnNames
<1> QED
  BY <1>1, <1>4, StackKept

LEMMA EnterTryKeeps ==
  ASSUME VarsInv, Vars!EnterTry
  PROVE  VarsInv'
<1> DEFINE s == Append(Vars!Running.blocks, Vars!Try)
<1>1. /\ calls # <<>> /\ Vars!Update([Vars!Running EXCEPT !.blocks = s])
      /\ UNCHANGED <<decls, var_frames, globals, staticVars, var_func, known, seen>>
  BY DEF Vars!EnterTry
<1>2. Vars!Running.blocks \in Seq(Vars!Values) /\ Vars!Try \in Vars!Values
  BY <1>1, BasicNames, VarsFacts DEF Vars!Activation, Vars!Try
<1>3. /\ s \in Seq(Vars!Values)
      /\ \A b \in 1 .. Len(s) : s[b] # Vars!Try =>
           b \in 1 .. Len(Vars!Running.blocks) /\ Vars!Running.blocks[b] = s[b]
  BY <1>2
<1> HIDE DEF s
<1>4. /\ SameStack /\ calls'[Len(calls)].blocks = s
      /\ calls'[Len(calls)].declared = Vars!Running.declared
  BY <1>1, <1>3, BlocksChange
<1>5. Vars!TypeOK' /\ Tame(decls)' /\ OwnNames' /\ Stacked' /\ calls' # <<>>
  BY <1>1, <1>4, NamesStay, VarsFacts DEF Vars!TypeOK
<1>6. CodesSeen'
  BY <1>1, <1>3, <1>4, CodesKept
<1> QED
  BY <1>5, <1>6 DEF VarsInv

LEMMA LeaveBlockKeeps ==
  ASSUME VarsInv, Vars!LeaveBlock
  PROVE  VarsInv'
<1> DEFINE s == SubSeq(Vars!Running.blocks, 1, Len(Vars!Running.blocks) - 1)
<1>1. /\ calls # <<>> /\ Vars!Update([Vars!Running EXCEPT !.blocks = s])
      /\ UNCHANGED <<decls, var_frames, globals, staticVars, var_func, known, seen>>
  BY DEF Vars!LeaveBlock
<1>2. Vars!Running.blocks \in Seq(Vars!Values) /\ Vars!Running.blocks # <<>>
  BY <1>1, VarsFacts DEF Vars!Activation, Vars!LeaveBlock
<1>3. /\ s \in Seq(Vars!Values)
      /\ \A b \in 1 .. Len(s) :
           b \in 1 .. Len(Vars!Running.blocks) /\ Vars!Running.blocks[b] = s[b]
  BY <1>2
<1> HIDE DEF s
<1>4. /\ SameStack /\ calls'[Len(calls)].blocks = s
      /\ calls'[Len(calls)].declared = Vars!Running.declared
  BY <1>1, <1>3, BlocksChange
<1>5. Vars!TypeOK' /\ Tame(decls)' /\ OwnNames' /\ Stacked' /\ calls' # <<>>
  BY <1>1, <1>4, NamesStay, VarsFacts DEF Vars!TypeOK
<1>6. CodesSeen'
  BY <1>1, <1>3, <1>4, CodesKept
<1> QED
  BY <1>5, <1>6 DEF VarsInv

LEMMA GreatestIs ==
  ASSUME NEW n \in Nat, NEW S, S \subseteq 1 .. n, S # {}
  PROVE  Vars!Max(S) \in S /\ \A k \in S : k <= Vars!Max(S)
<1>1. PICK m \in S : \A k \in S : k <= m
  BY GreatestExists
<1>2. m \in S /\ \A k \in S : m >= k
  BY <1>1
<1>3. Vars!Max(S) \in S /\ \A k \in S : Vars!Max(S) >= k
  BY <1>2, Zenon DEF Vars!Max
<1> QED
  BY <1>3

LEMMA CodesAreValues == Vars!Codes \subseteq Vars!Values
<1>1. MaxVal \in Nat
  BY VarsAssumption
<1> QED
  BY <1>1 DEF Vars!Codes, Vars!Values

\* The code of an exception is stored where a catch clause will find it.
LEMMA CodeIsStored ==
  ASSUME VarsInv, calls # <<>>, NEW c \in Vars!Codes, Vars!setVar(Vars!ExceptCode, c)
  PROVE  /\ c \in HeldCodes' /\ staticVars' = staticVars
         /\ var_frames' \in Seq(Vars!Frame) /\ Len(var_frames') = Len(var_frames)
         /\ globals' \in [Vars!Stored -> Vars!Values \cup {Absent}]
         /\ \A m \in Names : globals'[m] = globals[m]
         /\ \A k \in 1 .. Len(var_frames) :
              /\ var_frames'[k].keys = var_frames[k].keys
              /\ \A m \in Names : var_frames'[k].vars[m] = var_frames[k].vars[m]
<1> DEFINE E == Vars!ExceptCode
           L == Len(var_frames)
<1>1. c \in Vars!Values /\ c # Absent /\ E \in Vars!Stored /\ E \notin Names
      /\ Names \subseteq Vars!Stored
  BY BasicNames, CodesAreValues
<1>2. var_frames \in Seq(Vars!Frame) /\ L \in Nat
      /\ globals \in [Vars!Stored -> Vars!Values \cup {Absent}]
  BY VarsFacts DEF Vars!TypeOK
<1>3. /\ \A k \in 1 .. L : var_frames[k].keys[E] = Vars!NoKey
      /\ \A k \in 1 .. L :
           Vars!Holds(var_frames[k], E) <=> var_frames[k].vars[E] # Absent
  BY VarsFacts DEF OwnNames, Vars!Holds
<1>4. ASSUME NEW k \in 1 .. L, Vars!SetIn(k, E, c),
             \A j \in 1 .. L : j > k => var_frames[j].vars[E] = Absent
      PROVE  /\ c \in HeldCodes' /\ globals' = globals /\ staticVars' = staticVars
             /\ var_frames' \in Seq(Vars!Frame) /\ Len(var_frames') = L
             /\ \A i \in 1 .. L :
                  /\ var_frames'[i].keys = var_frames[i].keys
                  /\ \A m \in Names : var_frames'[i].vars[m] = var_frames[i].vars[m]
  <2>1. var_frames' = SetVariable(var_frames, k, E, c)
        /\ globals' = globals /\ staticVars' = staticVars
    BY <1>3, <1>4 DEF Vars!SetIn, SetVariable
  <2>2. /\ var_frames' \in Seq(Vars!Frame) /\ Len(var_frames') = L
        /\ \A j \in 1 .. L : var_frames'[j].keys = var_frames[j].keys
        /\ \A j \in 1 .. L : j # k => var_frames'[j] = var_frames[j]
        /\ \A m \in Vars!Stored : var_frames'[k].vars[m] =
                IF m = E THEN c ELSE var_frames[k].vars[m]
    BY <1>1, <1>2, <1>4, <2>1, SetVariableIs
  <2>3. \A i \in 1 .. L : \A m \in Names : var_frames'[i].vars[m] = var_frames[i].vars[m]
    BY <1>1, <2>2
  <2>4. /\ var_frames'[k].vars[E] = c
        /\ \A j \in 1 .. L : j > k => var_frames'[j].vars[E] = Absent
    BY <1>1, <1>4, <2>2
  <2>5. c \in HeldCodes'
    BY <1>1, <2>2, <2>4 DEF HeldCodes
  <2> QED
    BY <2>1, <2>2, <2>3, <2>5
<1>5. ASSUME Vars!SetGlobal(E, c), Vars!Holders(E) = {}
      PROVE  /\ c \in HeldCodes' /\ staticVars' = staticVars /\ var_frames' = var_frames
             /\ globals' \in [Vars!Stored -> Vars!Values \cup {Absent}]
             /\ \A m \in Names : globals'[m] = globals[m]
  <2>1. globals' = [globals EXCEPT ![E] = c] /\ staticVars' = staticVars
        /\ var_frames' = var_frames
    BY <1>5 DEF Vars!SetGlobal
  <2>2. /\ globals' \in [Vars!Stored -> Vars!Values \cup {Absent}]
        /\ globals'[E] = c /\ \A m \in Names : globals'[m] = globals[m]
    BY <1>1, <1>2, <2>1
  <2>3. \A k \in 1 .. L : var_frames[k].vars[E] = Absent
    BY <1>2, <1>3, <1>5 DEF Vars!Holders
  <2> QED
    BY <1>1, <2>1, <2>2, <2>3 DEF HeldCodes
<1>6. CASE Vars!Holders(E) # {}
  <2>1. /\ Vars!Newest(E) \in 1 .. L /\ Vars!SetIn(Vars!Newest(E), E, c)
        /\ \A j \in 1 .. L : j > Vars!Newest(E) => var_frames[j].vars[E] = Absent
    BY <1>2, <1>3, <1>6, NewestIs DEF Vars!setVar
  <2> QED
    BY <1>2, <1>4, <2>1
<1>7. CASE Vars!Holders(E) = {} /\ L # 0 /\ globals[E] = Absent
  <2>1. L \in 1 .. L /\ Vars!SetIn(L, E, c)
    BY <1>2, <1>7 DEF Vars!setVar
  <2> QED
    BY <1>2, <1>4, <2>1
<1>8. CASE Vars!Holders(E) = {} /\ (globals[E] # Absent \/ L = 0)
  <2>1. Vars!SetGlobal(E, c)
    BY <1>2, <1>8 DEF Vars!setVar
  <2> QED
    BY <1>2, <1>5, <1>8, <2>1
<1> QED
  BY <1>6, <1>7, <1>8

\* Where an exception goes: to the try that the running activation is in.
CatchBlocks(c) ==
  Append(SubSeq(Vars!Running.blocks, 1, Vars!Max(Vars!TryBlocks(Len(calls))) - 1), c)

LEMMA LastReplaced ==
  ASSUME NEW S, NEW s \in Seq(S), s # <<>>, NEW a \in S
  PROVE  Append(SubSeq(s, 1, Len(s) - 1), a) = [s EXCEPT ![Len(s)] = a]
<1> DEFINE t == Append(SubSeq(s, 1, Len(s) - 1), a)
           u == [s EXCEPT ![Len(s)] = a]
<1>1. Len(s) \in Nat \ {0}
  OBVIOUS
<1>2. /\ t \in Seq(S) /\ Len(t) = Len(s) /\ t[Len(s)] = a
      /\ \A k \in 1 .. (Len(s) - 1) : t[k] = s[k]
  BY ReplaceTop
<1>3. /\ u \in Seq(S) /\ Len(u) = Len(s) /\ u[Len(s)] = a
      /\ \A k \in 1 .. (Len(s) - 1) : u[k] = s[k]
  BY <1>1
<1> HIDE DEF t, u
<1>4. \A k \in 1 .. Len(s) : t[k] = u[k]
  BY <1>1, <1>2, <1>3
<1>5. t = u
  BY <1>1, <1>2, <1>3, <1>4, SeqEqual
<1> QED
  BY <1>5 DEF t, u

LEMMA ThrowIs ==
  ASSUME VarsInv, NEW c \in Vars!Codes, Vars!Throw(c)
  PROVE  /\ calls # <<>> /\ Vars!setVar(Vars!ExceptCode, c)
         /\ UNCHANGED <<decls, var_func, known, seen>>
         /\ \A k \in 1 .. Len(calls) : \A b \in 1 .. Len(calls[k].blocks) :
              calls[k].blocks[b] = Vars!Try
         /\ Vars!Max(Vars!TryBlocks(Len(calls))) = Len(Vars!Running.blocks)
         /\ Vars!Running.blocks # <<>>
         /\ CatchBlocks(c) \in Seq(Vars!Values)
         /\ Len(CatchBlocks(c)) = Len(Vars!Running.blocks)
         /\ \A b \in 1 .. Len(CatchBlocks(c)) : CatchBlocks(c)[b] \in {Vars!Try, c}
         /\ Vars!Update([Vars!Running EXCEPT !.blocks = CatchBlocks(c)])
<1> DEFINE L == Len(calls)
           B == Vars!Running.blocks
<1>1. /\ calls # <<>> /\ Vars!setVar(Vars!ExceptCode, c)
      /\ UNCHANGED <<decls, var_func, known, seen>>
      /\ \A k \in DOMAIN calls : Vars!Range(calls[k].blocks) \subseteq {Vars!Try}
      /\ Vars!TryBlocks(L) # {}
      /\ calls' = Append(SubSeq(calls, 1, L - 1), [calls[L] EXCEPT !.blocks =
                            Append(SubSeq(@, 1, Vars!Max(Vars!TryBlocks(L)) - 1), c)])
  <2>1. calls # <<>>
    BY DEF Vars!Throw
  <2>2. ~ decls.rethrow /\ ~ decls.crossing
    BY <2>1, VarsFacts DEF Tame
  <2> QED
    BY <2>1, <2>2 DEF Vars!Throw
<1>2. /\ calls \in Seq(Vars!Activation) /\ L \in 1 .. L /\ Vars!Running = calls[L]
      /\ B \in Seq(Vars!Values) /\ L \in Nat /\ L # 0
      /\ \A k \in 1 .. L : calls[k].blocks \in Seq(Vars!Values)
  BY <1>1, VarsFacts DEF Vars!Activation
<1>3. \A k \in 1 .. L : \A b \in 1 .. Len(calls[k].blocks) : calls[k].blocks[b] = Vars!Try
  <2>1. ASSUME NEW k \in 1 .. L, NEW b \in 1 .. Len(calls[k].blocks)
        PROVE  calls[k].blocks[b] = Vars!Try
    <3>1. k \in DOMAIN calls /\ b \in DOMAIN calls[k].blocks
      BY <1>2
    <3>2. calls[k].blocks[b] \in Vars!Range(calls[k].blocks)
      BY <3>1 DEF Vars!Range
    <3> QED
      BY <1>1, <3>1, <3>2
  <2> QED
    BY <2>1
<1>4. Vars!TryBlocks(L) = 1 .. Len(B) /\ Len(B) # 0
  BY <1>1, <1>2, <1>3 DEF Vars!TryBlocks
<1>5. Vars!Max(Vars!TryBlocks(L)) = Len(B)
  <2> DEFINE T == Vars!TryBlocks(L)
             n == Len(B)
  <2>1. T = 1 .. n /\ T # {} /\ n \in Nat \ {0}
    BY <1>1, <1>2, <1>4
  <2> HIDE DEF T, n
  <2>2. Vars!Max(T) \in T /\ \A k \in T : k <= Vars!Max(T)
    BY <2>1, GreatestIs
  <2>3. Vars!Max(T) = n
    BY <2>1, <2>2
  <2> QED
    BY <2>3 DEF T, n
<1>6. c \in Vars!Values
  BY CodesAreValues
<1>7. CatchBlocks(c) = Append(SubSeq(B, 1, Len(B) - 1), c)
  BY <1>5 DEF CatchBlocks
<1>8. /\ CatchBlocks(c) \in Seq(Vars!Values) /\ Len(CatchBlocks(c)) = Len(B)
      /\ \A b \in 1 .. Len(B) : CatchBlocks(c)[b] \in {Vars!Try, c}
  BY <1>2, <1>3, <1>4, <1>6, <1>7
<1>9. Vars!Update([Vars!Running EXCEPT !.blocks = CatchBlocks(c)])
  <2> DEFINE a == [calls[L] EXCEPT !.blocks = CatchBlocks(c)]
  <2>1. calls' = Append(SubSeq(calls, 1, L - 1), a)
    BY <1>1, <1>2 DEF CatchBlocks
  <2>2. a \in Vars!Activation
    BY <1>1, <1>2, <1>8, VarsFacts, BlocksAre
  <2>3. calls' = [calls EXCEPT ![L] = a]
    <3> HIDE DEF a
    <3> QED
      BY <1>1, <1>2, <2>1, <2>2, LastReplaced
  <2> QED
    BY <1>2, <2>3 DEF Vars!Update
<1> QED
  BY <1>1, <1>3, <1>4, <1>5, <1>8, <1>9

LEMMA ThrowKeeps ==
  ASSUME VarsInv, NEW c \in Vars!Codes, Vars!Throw(c)
  PROVE  VarsInv'
<1>1. /\ calls # <<>> /\ Vars!setVar(Vars!ExceptCode, c)
      /\ UNCHANGED <<decls, var_func, known, seen>>
      /\ \A k \in 1 .. Len(calls) : \A b \in 1 .. Len(calls[k].blocks) :
           calls[k].blocks[b] = Vars!Try
      /\ CatchBlocks(c) \in Seq(Vars!Values)
      /\ \A b \in 1 .. Len(CatchBlocks(c)) : CatchBlocks(c)[b] \in {Vars!Try, c}
      /\ Vars!Update([Vars!Running EXCEPT !.blocks = CatchBlocks(c)])
  BY ThrowIs
<1>2. /\ c \in HeldCodes' /\ staticVars' = staticVars
      /\ var_frames' \in Seq(Vars!Frame) /\ Len(var_frames') = Len(var_frames)
      /\ globals' \in [Vars!Stored -> Vars!Values \cup {Absent}]
      /\ \A m \in Names : globals'[m] = globals[m]
      /\ \A k \in 1 .. Len(var_frames) :
           /\ var_frames'[k].keys = var_frames[k].keys
           /\ \A m \in Names : var_frames'[k].vars[m] = var_frames[k].vars[m]
  BY <1>1, CodeIsStored
<1>3. /\ SameStack /\ calls'[Len(calls)].blocks = CatchBlocks(c)
      /\ calls'[Len(calls)].declared = Vars!Running.declared
  BY <1>1, <1>2, BlocksChange
<1>4. Vars!TypeOK' /\ Tame(decls)' /\ OwnNames' /\ Stacked' /\ calls' # <<>>
  BY <1>1, <1>2, <1>3, NamesStay
<1>5. CodesSeen'
  <2>1. ASSUME NEW k \in 1 .. Len(calls'), NEW b \in 1 .. Len(calls'[k].blocks),
               calls'[k].blocks[b] # Vars!Try
        PROVE  /\ calls'[k].blocks[b] \in HeldCodes'
               /\ \A j \in 1 .. Len(var_frames') :
                    j > calls'[k].base => var_frames'[j].vars[Vars!ExceptCode] = Absent
    <3>1. k = Len(calls)
      BY <1>1, <1>3, <2>1 DEF SameStack
    <3>2. calls'[k].blocks[b] = c
      BY <1>1, <1>3, <2>1, <3>1
    <3>3. calls'[k].base = Len(var_frames) /\ Len(var_frames) \in Nat
      BY <1>1, <1>3, <3>1, VarsFacts DEF SameStack
    <3> QED
      BY <1>2, <3>2, <3>3
  <2> QED
    BY <2>1 DEF CodesSeen
<1> QED
  BY <1>4, <1>5 DEF VarsInv

\* A call, and the start of Main: one activation more, and its empty frame.
LEMMA BeginIs ==
  ASSUME VarsInv, NEW f \in Vars!Bodies, NEW base \in Nat
  PROVE  LET a == Vars!Begin(f, base) IN
         /\ a \in Vars!Activation /\ a.func = f /\ a.base = base /\ a.saved = var_func
         /\ a.declared = {} /\ a.blocks = <<>>
<1>1. var_func \in Funcs \cup {Vars!NoName} /\ <<>> \in Seq(Vars!Values) /\ {} \in SUBSET Names
  BY DEF VarsInv, Vars!TypeOK
<1> DEFINE r == [func |-> f, base |-> base, saved |-> var_func, declared |-> {}, blocks |-> <<>>]
<1>2. Vars!Begin(f, base) = r
  BY DEF Vars!Begin
<1>3. r \in Vars!Activation
  BY <1>1, ActivationIs
<1>4. /\ r.func = f /\ r.base = base /\ r.saved = var_func
      /\ r.declared = {} /\ r.blocks = <<>>
  OBVIOUS
<1> HIDE DEF r
<1> QED
  BY <1>2, <1>3, <1>4

LEMMA EmptyFrameIs ==
  /\ Vars!EmptyFrame \in Vars!Frame
  /\ \A n \in Vars!Stored : Vars!EmptyFrame.keys[n] = Vars!NoKey
                           /\ Vars!EmptyFrame.vars[n] = Absent
BY DEF Vars!EmptyFrame, Vars!Frame

LEMMA EmptyHasNone ==
  ASSUME NEW k, calls'[k].declared = {}, var_frames'[calls'[k].base] = Vars!EmptyFrame
  PROVE  HasOwn(k)'
<1>1. ASSUME NEW n \in Names
      PROVE  LET fr == var_frames'[calls'[k].base] IN
             fr.keys[n] = Vars!NoKey /\ fr.vars[n] = Absent
  BY EmptyFrameIs, BasicNames
<1> QED
  BY <1>1 DEF HasOwn

LEMMA CallKeeps ==
  ASSUME VarsInv, NEW f \in Funcs, Vars!Call(f)
  PROVE  VarsInv'
<1> DEFINE L == Len(calls)
           F == Len(var_frames)
           a == Vars!Begin(f, F + 1)
<1>1. /\ calls # <<>> /\ var_frames' = Append(var_frames, Vars!EmptyFrame)
      /\ calls' = Append(calls, a) /\ var_func' = f
      /\ UNCHANGED <<decls, globals, staticVars, known, seen>>
  BY DEF Vars!Call
<1>2. /\ L \in Nat \ {0} /\ F \in Nat /\ calls \in Seq(Vars!Activation)
      /\ var_frames \in Seq(Vars!Frame) /\ F + 1 \in Nat
      /\ f \in Vars!Bodies
  <2>1. f \in Vars!Bodies
    BY DEF Vars!Bodies
  <2> QED
    BY <1>1, <2>1, VarsFacts
<1>3. /\ a \in Vars!Activation /\ a.func = f /\ a.base = F + 1 /\ a.saved = var_func
      /\ a.declared = {} /\ a.blocks = <<>>
  BY <1>2, BeginIs
<1> HIDE DEF a
<1>4. /\ calls' \in Seq(Vars!Activation) /\ Len(calls') = L + 1 /\ calls'[L + 1] = a
      /\ \A k \in 1 .. L : calls'[k] = calls[k]
  BY <1>1, <1>2, <1>3, PushStack
<1>5. /\ var_frames' \in Seq(Vars!Frame) /\ Len(var_frames') = F + 1
      /\ var_frames'[F + 1] = Vars!EmptyFrame
      /\ \A k \in 1 .. F : var_frames'[k] = var_frames[k]
  BY <1>1, <1>2, EmptyFrameIs, PushStack
<1>6. Vars!TypeOK' /\ Tame(decls)' /\ calls' # <<>>
  BY <1>1, <1>2, <1>4, <1>5, VarsFacts DEF Vars!TypeOK
<1>7. Stacked'
  <2>1. Frameless' = Frameless /\ Frameless \in {0, 1}
    BY <1>1, <1>2, <1>4, VarsFacts DEF Frameless
  <2>2. calls'[1].func \in {Vars!Main, Vars!TopLevel}
    BY <1>1, <1>2, <1>4, VarsFacts DEF Stacked
  <2>3. ASSUME NEW k \in 2 .. L + 1
        PROVE  calls'[k].func \in Funcs /\ calls'[k].saved = KeyOf(calls'[k - 1].func)
    <3>1. CASE k = L + 1
      BY <1>1, <1>2, <1>3, <1>4, <3>1, VarsFacts
    <3>2. CASE k # L + 1
      <4>1. k \in 2 .. L /\ k \in 1 .. L /\ k - 1 \in 1 .. L
        BY <1>2, <3>2
      <4> QED
        BY <1>1, <1>4, <4>1, VarsFacts DEF Stacked
    <3> QED
      BY <3>1, <3>2
  <2>4. F = L - Frameless
    BY <1>1, VarsFacts DEF Stacked
  <2>5. \A k \in 1 .. L + 1 : calls'[k].base = k - Frameless'
    BY <1>1, <1>2, <1>3, <1>4, <2>1, <2>4, VarsFacts DEF Stacked
  <2>6. F + 1 = (L + 1) - Frameless'
    BY <1>2, <2>1, <2>4
  <2>7. f = KeyOf(f)
    BY DEF KeyOf
  <2> QED
    BY <1>1, <1>3, <1>4, <1>5, <2>2, <2>3, <2>5, <2>6, <2>7 DEF Stacked
<1>8. OwnNames'
  <2>1. ASSUME NEW k \in 1 .. L, calls[k].base # 0 PROVE HasOwn(k)'
    <3>1. HasOwn(k) /\ calls[k].base \in 1 .. F
      BY <1>1, <2>1, VarsFacts DEF OwnNames
    <3>2. calls'[k] = calls[k] /\ var_frames'[calls[k].base] = var_frames[calls[k].base]
      BY <1>4, <1>5, <3>1
    <3> QED
      BY <1>1, <3>1, <3>2 DEF HasOwn
  <2>2. ASSUME NEW k, k = L + 1 PROVE HasOwn(k)'
    <3>1. calls'[k].declared = {} /\ calls'[k].base = F + 1
      BY <1>3, <1>4, <2>2
    <3> QED
      BY <1>5, <3>1, EmptyHasNone
  <2>3. ASSUME NEW k \in 1 .. Len(calls')
        PROVE  IF calls'[k].base = 0 THEN calls'[k].declared \subseteq known' ELSE HasOwn(k)'
    <3>1. CASE k = L + 1
      <4>1. HasOwn(k)'
        BY <2>2, <3>1
      <4>2. calls'[k].declared = {}
        BY <1>3, <1>4, <3>1
      <4> QED
        BY <4>1, <4>2
    <3>2. CASE k # L + 1
      <4>1. k \in 1 .. L /\ calls'[k] = calls[k]
        BY <1>2, <1>4, <3>2
      <4> QED
        BY <1>1, <2>1, <4>1, VarsFacts DEF OwnNames
    <3> QED
      BY <3>1, <3>2
  <2>4. \A k \in 1 .. Len(var_frames') : var_frames'[k].keys[Vars!ExceptCode] = Vars!NoKey
    <3>1. \A k \in 1 .. F : var_frames[k].keys[Vars!ExceptCode] = Vars!NoKey
      BY <1>1, VarsFacts DEF OwnNames
    <3>2. Vars!EmptyFrame.keys[Vars!ExceptCode] = Vars!NoKey
      BY EmptyFrameIs, BasicNames
    <3>3. ASSUME NEW k \in 1 .. Len(var_frames')
          PROVE  var_frames'[k].keys[Vars!ExceptCode] = Vars!NoKey
      <4>1. CASE k = F + 1
        BY <1>5, <3>2, <4>1
      <4>2. CASE k # F + 1
        <5>1. k \in 1 .. F
          BY <1>2, <1>5, <4>2
        <5> QED
          BY <1>5, <3>1, <5>1
      <4> QED
        BY <4>1, <4>2
    <3> QED
      BY <3>3
  <2>5. \A n \in known' : n \in decls'.autos[Vars!TopLevel] /\ globals'[n] # Absent
    BY <1>1, VarsFacts DEF OwnNames
  <2> QED
    BY <2>3, <2>4, <2>5 DEF OwnNames
<1>9. CodesSeen'
  <2>1. /\ \A k \in 1 .. F : var_frames'[k].vars[Vars!ExceptCode]
                = var_frames[k].vars[Vars!ExceptCode]
        /\ var_frames'[F + 1].vars[Vars!ExceptCode] = Absent
    BY <1>5, EmptyFrameIs, BasicNames
  <2>2. HeldCodes \subseteq HeldCodes'
    <3>1. Len(var_frames') = F + 1 /\ F \in Nat
      BY <1>2, <1>5
    <3>2. globals'[Vars!ExceptCode] = globals[Vars!ExceptCode]
      BY <1>1
    <3>3. \A j \in 1 .. (F + 1) : j = F + 1 \/ j \in 1 .. F
      BY <3>1
    <3>4. ASSUME NEW c \in Vars!Values, NEW k \in 1 .. F,
                 var_frames[k].vars[Vars!ExceptCode] = c,
                 \A j \in 1 .. F : j > k => var_frames[j].vars[Vars!ExceptCode] = Absent
          PROVE  c \in HeldCodes'
      <4>1. /\ k \in 1 .. (F + 1) /\ var_frames'[k].vars[Vars!ExceptCode] = c
            /\ \A j \in 1 .. (F + 1) : j > k => var_frames'[j].vars[Vars!ExceptCode] = Absent
        BY <2>1, <3>1, <3>3, <3>4
      <4> QED
        BY <3>1, <4>1 DEF HeldCodes
    <3>5. ASSUME NEW c \in Vars!Values, globals[Vars!ExceptCode] = c,
                 \A k \in 1 .. F : var_frames[k].vars[Vars!ExceptCode] = Absent
          PROVE  c \in HeldCodes'
      <4>1. \A k \in 1 .. (F + 1) : var_frames'[k].vars[Vars!ExceptCode] = Absent
        BY <2>1, <3>3, <3>5
      <4> QED
        BY <3>1, <3>2, <3>5, <4>1 DEF HeldCodes
    <3> QED
      BY <3>4, <3>5 DEF HeldCodes
  <2>3. ASSUME NEW k \in 1 .. Len(calls'), NEW b \in 1 .. Len(calls'[k].blocks),
               calls'[k].blocks[b] # Vars!Try
        PROVE  /\ calls'[k].blocks[b] \in HeldCodes'
               /\ \A j \in 1 .. Len(var_frames') :
                    j > calls'[k].base => var_frames'[j].vars[Vars!ExceptCode] = Absent
    <3>1. k # L + 1
      BY <1>3, <1>4, <2>3
    <3>2. k \in 1 .. L /\ calls'[k] = calls[k]
      BY <1>2, <1>4, <3>1
    <3>3. /\ calls[k].blocks[b] \in HeldCodes
          /\ \A j \in 1 .. F :
               j > calls[k].base => var_frames[j].vars[Vars!ExceptCode] = Absent
      BY <1>1, <2>3, <3>2, VarsFacts DEF CodesSeen
    <3> QED
      BY <1>2, <1>5, <2>1, <2>2, <3>2, <3>3
  <2> QED
    BY <2>3 DEF CodesSeen
<1> QED
  BY <1>6, <1>7, <1>8, <1>9 DEF VarsInv

LEMMA StartMainKeeps ==
  ASSUME VarsInv, Vars!StartMain
  PROVE  VarsInv'
<1> DEFINE a == Vars!Begin(Vars!Main, 1)
<1>1. /\ Len(calls) = 1 /\ calls # <<>> /\ Vars!Running.func = Vars!TopLevel
      /\ var_frames' = Append(var_frames, Vars!EmptyFrame)
      /\ calls' = <<Vars!Begin(Vars!Main, Len(var_frames) + 1)>>
      /\ UNCHANGED <<decls, globals, staticVars, var_func, known, seen>>
  BY DEF Vars!StartMain
<1>2. Len(var_frames) = 0 /\ var_frames \in Seq(Vars!Frame) /\ calls' = <<a>>
  BY <1>1, VarsFacts
<1>3. /\ a \in Vars!Activation /\ a.func = Vars!Main /\ a.base = 1 /\ a.saved = var_func
      /\ a.declared = {} /\ a.blocks = <<>>
  BY BeginIs DEF Vars!Bodies
<1> HIDE DEF a
<1>4. /\ calls' \in Seq(Vars!Activation) /\ Len(calls') = 1 /\ calls'[1] = a /\ calls' # <<>>
  BY <1>2, <1>3
<1>5. /\ var_frames' \in Seq(Vars!Frame) /\ Len(var_frames') = 1
      /\ var_frames'[1] = Vars!EmptyFrame
  BY <1>1, <1>2, EmptyFrameIs
<1>6. Vars!TypeOK' /\ Tame(decls)'
  BY <1>1, <1>4, <1>5, VarsFacts DEF Vars!TypeOK
<1>7. Stacked'
  <2>1. Frameless' = 0
    BY <1>3, <1>4, BasicNames DEF Frameless
  <2>2. KeyOf(Vars!Main) = var_func
    BY <1>1, VarsFacts, BasicNames DEF KeyOf
  <2> QED
    BY <1>1, <1>3, <1>4, <1>5, <2>1, <2>2 DEF Stacked
<1>8. OwnNames'
  <2>1. ASSUME NEW k \in 1 .. Len(calls')
        PROVE  IF calls'[k].base = 0 THEN calls'[k].declared \subseteq known' ELSE HasOwn(k)'
    <3>1. calls'[k].declared = {} /\ calls'[k].base = 1
      BY <1>3, <1>4
    <3> QED
      BY <1>5, <3>1, EmptyHasNone
  <2>2. \A k \in 1 .. Len(var_frames') : var_frames'[k].keys[Vars!ExceptCode] = Vars!NoKey
    <3>1. Vars!EmptyFrame.keys[Vars!ExceptCode] = Vars!NoKey
      BY EmptyFrameIs, BasicNames
    <3> QED
      BY <1>5, <3>1
  <2>3. \A n \in known' : n \in decls'.autos[Vars!TopLevel] /\ globals'[n] # Absent
    BY <1>1, VarsFacts DEF OwnNames
  <2> QED
    BY <2>1, <2>2, <2>3 DEF OwnNames
<1>9. CodesSeen'
  BY <1>3, <1>4 DEF CodesSeen
<1> QED
  BY <1>4, <1>6, <1>7, <1>8, <1>9 DEF VarsInv

LEMMA VarsUnhandledKeeps ==
  ASSUME VarsInv, Vars!Unhandled
  PROVE  VarsInv'
<1>1. /\ calls # <<>> /\ calls' = <<>>
      /\ var_frames' = IF calls[1].func = Vars!Main
                       THEN SubSeq(var_frames, 1, Len(var_frames) - 1) ELSE var_frames
      /\ UNCHANGED <<decls, globals, staticVars, var_func, known, seen>>
  BY DEF Vars!Unhandled
<1>2. var_frames \in Seq(Vars!Frame)
  BY <1>1, VarsFacts
<1>3. var_frames' \in Seq(Vars!Frame)
  <2>1. CASE calls[1].func = Vars!Main
    <3>1. var_frames # <<>>
      <4>1. Frameless = 0
        BY <2>1, BasicNames DEF Frameless
      <4> QED
        BY <1>1, <4>1, VarsFacts DEF Stacked
    <3> QED
      BY <1>1, <1>2, <2>1, <3>1, PopStack
  <2> QED
    BY <1>1, <1>2, <2>1
<1> QED
  BY <1>1, <1>3, VarsFacts DEF VarsInv, Vars!TypeOK

LEMMA ReturnKeeps ==
  ASSUME VarsInv, Vars!Return
  PROVE  VarsInv'
<1> DEFINE L == Len(calls)
           F == Len(var_frames)
<1>1. /\ calls # <<>> /\ Vars!Running.func # Vars!TopLevel
      /\ var_frames' = SubSeq(var_frames, 1, F - 1)
      /\ calls' = SubSeq(calls, 1, L - 1)
      /\ var_func' = IF Vars!Running.func = Vars!Main THEN var_func ELSE Vars!Running.saved
      /\ UNCHANGED <<decls, globals, staticVars, known, seen>>
  BY DEF Vars!Return
<1>2. /\ L \in Nat \ {0} /\ F \in Nat \ {0} /\ calls \in Seq(Vars!Activation)
      /\ var_frames \in Seq(Vars!Frame) /\ var_frames # <<>>
      /\ Vars!Running = calls[L] /\ Vars!Running.saved \in Funcs \cup {Vars!NoName}
      /\ var_func \in Funcs \cup {Vars!NoName}
  BY <1>1, VarsFacts DEF Vars!Activation, Vars!TypeOK
<1>3. /\ calls' \in Seq(Vars!Activation) /\ Len(calls') = L - 1
      /\ \A k \in 1 .. L - 1 : calls'[k] = calls[k]
  BY <1>1, <1>2, PopStack
<1>4. /\ var_frames' \in Seq(Vars!Frame) /\ Len(var_frames') = F - 1
      /\ \A k \in 1 .. F - 1 : var_frames'[k] = var_frames[k]
  BY <1>1, <1>2, PopStack
<1>5. Vars!TypeOK' /\ Tame(decls)'
  BY <1>1, <1>2, <1>3, <1>4, VarsFacts DEF Vars!TypeOK
<1>6. ASSUME calls' # <<>>
      PROVE  Stacked' /\ OwnNames' /\ CodesSeen'
  <2>1. L \in 2 .. L /\ L - 1 \in 1 .. L /\ L - 1 \in 1 .. L - 1 /\ L >= 2
    BY <1>2, <1>3, <1>6
  <2>2. Frameless' = Frameless /\ Frameless \in {0, 1} /\ F = L - Frameless
    BY <1>1, <1>3, <2>1, VarsFacts DEF Frameless, Stacked
  <2>3. Vars!Running.func # Vars!Main /\ Vars!Running.saved = KeyOf(calls[L - 1].func)
    BY <1>1, <1>2, <2>1, VarsFacts, BasicNames DEF Stacked
  <2>4. Stacked'
    <3>1. \A k \in 2 .. L - 1 : k \in 2 .. L /\ k \in 1 .. L - 1 /\ k - 1 \in 1 .. L - 1
      BY <1>2
    <3>2. calls'[1].func \in {Vars!Main, Vars!TopLevel}
      BY <1>1, <1>3, <2>1, VarsFacts DEF Stacked
    <3>3. \A k \in 2 .. L - 1 : /\ calls'[k].func \in Funcs
                                /\ calls'[k].saved = KeyOf(calls'[k - 1].func)
      BY <1>1, <1>3, <3>1, VarsFacts DEF Stacked
    <3>4. \A k \in 1 .. L - 1 : calls'[k].base = k - Frameless'
      BY <1>1, <1>2, <1>3, <2>2, VarsFacts DEF Stacked
    <3>5. F - 1 = (L - 1) - Frameless'
      BY <1>2, <2>2
    <3>6. var_func' = KeyOf(calls'[L - 1].func)
      BY <1>1, <1>3, <2>1, <2>3
    <3> QED
      BY <1>3, <1>4, <3>2, <3>3, <3>4, <3>5, <3>6 DEF Stacked
  <2>5. \A k \in 1 .. L - 1 : k \in 1 .. L /\ calls[k].base \in 0 .. F - 1
    BY <1>1, <1>2, VarsFacts
  <2>6. OwnNames'
    <3>1. ASSUME NEW k \in 1 .. L - 1, calls[k].base # 0 PROVE HasOwn(k)'
      <4>1. HasOwn(k) /\ calls[k].base \in 1 .. F - 1
        BY <1>1, <1>2, <2>5, <3>1, VarsFacts DEF OwnNames
      <4>2. calls'[k] = calls[k] /\ var_frames'[calls[k].base] = var_frames[calls[k].base]
        BY <1>3, <1>4, <4>1
      <4> QED
        BY <1>1, <4>1, <4>2 DEF HasOwn
    <3>2. ASSUME NEW k \in 1 .. Len(calls')
          PROVE  IF calls'[k].base = 0 THEN calls'[k].declared \subseteq known' ELSE HasOwn(k)'
      BY <1>1, <1>3, <2>5, <3>1, VarsFacts DEF OwnNames
    <3>3. \A k \in 1 .. Len(var_frames') : var_frames'[k].keys[Vars!ExceptCode] = Vars!NoKey
      BY <1>1, <1>2, <1>4, VarsFacts DEF OwnNames
    <3>4. \A n \in known' : n \in decls'.autos[Vars!TopLevel] /\ globals'[n] # Absent
      BY <1>1, VarsFacts DEF OwnNames
    <3> QED
      BY <3>2, <3>3, <3>4 DEF OwnNames
  <2>7. CodesSeen'
    <3>1. ASSUME var_frames[F].vars[Vars!ExceptCode] = Absent
          PROVE  HeldCodes \subseteq HeldCodes'
      <4>1. ASSUME NEW c \in Vars!Values, NEW k \in 1 .. F,
                   var_frames[k].vars[Vars!ExceptCode] = c,
                   \A j \in 1 .. F : j > k => var_frames[j].vars[Vars!ExceptCode] = Absent
            PROVE  c \in HeldCodes'
        <5>1. k # F
          BY <3>1, <4>1, BasicNames
        <5>2. k \in 1 .. F - 1 /\ \A j \in 1 .. F - 1 : j \in 1 .. F
          BY <1>2, <5>1
        <5>3. /\ var_frames'[k].vars[Vars!ExceptCode] = c
              /\ \A j \in 1 .. F - 1 : j > k => var_frames'[j].vars[Vars!ExceptCode] = Absent
          BY <1>4, <4>1, <5>2
        <5> QED
          BY <1>4, <5>2, <5>3 DEF HeldCodes
      <4>2. ASSUME NEW c \in Vars!Values, globals[Vars!ExceptCode] = c,
                   \A k \in 1 .. F : var_frames[k].vars[Vars!ExceptCode] = Absent
            PROVE  c \in HeldCodes'
        <5>1. \A j \in 1 .. F - 1 : j \in 1 .. F
          BY <1>2
        <5> QED
          BY <1>1, <1>4, <4>2, <5>1 DEF HeldCodes
      <4> QED
        BY <4>1, <4>2 DEF HeldCodes
    <3>2. ASSUME NEW k \in 1 .. Len(calls'), NEW b \in 1 .. Len(calls'[k].blocks),
                 calls'[k].blocks[b] # Vars!Try
          PROVE  /\ calls'[k].blocks[b] \in HeldCodes'
                 /\ \A j \in 1 .. Len(var_frames') :
                      j > calls'[k].base => var_frames'[j].vars[Vars!ExceptCode] = Absent
      <4>1. k \in 1 .. L - 1 /\ calls'[k] = calls[k] /\ k \in 1 .. L
        BY <1>3, <2>5
      <4>2. /\ calls[k].blocks[b] \in HeldCodes
            /\ \A j \in 1 .. F :
                 j > calls[k].base => var_frames[j].vars[Vars!ExceptCode] = Absent
        BY <1>1, <3>2, <4>1, VarsFacts DEF CodesSeen
      <4>3. F \in 1 .. F /\ F > calls[k].base
        BY <1>2, <2>5, <4>1
      <4> QED
        BY <1>2, <1>4, <3>1, <4>1, <4>2, <4>3
    <3> QED
      BY <3>2 DEF CodesSeen
  <2> QED
    BY <2>4, <2>6, <2>7
<1> QED
  BY <1>5, <1>6 DEF VarsInv

LEMMA StepKeepsVars == VarsInv /\ [Vars!Next]_Vars!vars => VarsInv'
<1> SUFFICES ASSUME VarsInv, [Vars!Next]_Vars!vars PROVE VarsInv'
  OBVIOUS
<1>1. CASE \E n \in Names, v \in Vars!Values :
             Vars!Declare(n, v) \/ Vars!DeclareStatic(n, v) \/ Vars!Assign(n, v)
  BY <1>1, DeclareKeeps, DeclareStaticKeeps, AssignKeeps
<1>2. CASE \E f \in Funcs : Vars!Call(f)
  BY <1>2, CallKeeps
<1>3. CASE \E c \in Vars!Codes : Vars!Throw(c)
  BY <1>3, ThrowKeeps
<1>4. CASE \/ Vars!Return \/ Vars!StartMain \/ Vars!EnterTry \/ Vars!LeaveBlock \/ Vars!Unhandled
  BY <1>4, ReturnKeeps, StartMainKeeps, EnterTryKeeps, LeaveBlockKeeps, VarsUnhandledKeeps
<1>5. CASE (\E n \in Names : Vars!Read(n)) \/ Vars!ReadCode \/ Vars!Ended \/ UNCHANGED Vars!vars
  BY <1>5, ReadsKeep
<1> QED
  BY <1>1, <1>2, <1>3, <1>4, <1>5 DEF Vars!Next

-----------------------------------------------------------------------------
(* What the state means, and its steps as steps of lexical scope.          *)

ActSet == [func : Vars!Bodies, blocks : Seq(Vars!Values),
           vars : [Names -> Vars!Values \cup {Absent}], own : SUBSET Names]
ActsFit ==
  /\ Vars!Acts \in Seq(ActSet) /\ Len(Vars!Acts) = Len(calls)
  /\ \A k \in 1 .. Len(calls) :
       /\ Vars!Acts[k].func = calls[k].func /\ Vars!Acts[k].blocks = calls[k].blocks
       /\ \A n \in Names :
            LET fr == var_frames[calls[k].base] IN
            /\ Vars!Acts[k].vars[n] = IF calls[k].base = 0 THEN Absent ELSE fr.vars[n]
            /\ n \in Vars!Acts[k].own <=> calls[k].base # 0 /\ fr.keys[n] # Vars!NoKey
StatsFit ==
  /\ Vars!StaticValues \in [Vars!Bodies -> [Names -> Vars!Values \cup {Absent}]]
  /\ \A n \in Names : Vars!StaticValues[Vars!TopLevel][n] = Absent
  /\ \A f \in Vars!Bodies \ {Vars!TopLevel} : \A n \in Names :
       Vars!StaticValues[f][n] = staticVars[<<KeyOf(f), n>>]
GlobsFit ==
  /\ Vars!GlobalValues \in [Names -> Vars!Values \cup {Absent}]
  /\ \A n \in Names : Vars!GlobalValues[n] = globals[n]

LEMMA ActIs ==
  ASSUME NEW f \in Vars!Bodies, NEW b \in Seq(Vars!Values),
         NEW vs \in [Names -> Vars!Values \cup {Absent}], NEW o \in SUBSET Names
  PROVE  [func |-> f, blocks |-> b, vars |-> vs, own |-> o] \in ActSet
BY DEF ActSet

LEMMA SameAct ==
  ASSUME NEW a \in ActSet, NEW b \in ActSet, a.func = b.func, a.blocks = b.blocks,
         \A n \in Names : a.vars[n] = b.vars[n] /\ (n \in a.own <=> n \in b.own)
  PROVE  a = b
<1>1. a.vars = b.vars /\ a.own = b.own
  BY DEF ActSet
<1> QED
  BY <1>1 DEF ActSet

LEMMA ActsAre == VarsInv => ActsFit
<1> SUFFICES ASSUME VarsInv PROVE ActsFit
  OBVIOUS
<1>1. calls \in Seq(Vars!Activation) /\ Len(calls) \in Nat /\ DOMAIN calls = 1 .. Len(calls)
  BY DEF VarsInv, Vars!TypeOK
<1>2. ASSUME NEW k \in 1 .. Len(calls)
      PROVE  /\ Vars!Acts[k] \in ActSet
             /\ Vars!Acts[k].func = calls[k].func /\ Vars!Acts[k].blocks = calls[k].blocks
             /\ \A n \in Names :
                  LET fr == var_frames[calls[k].base] IN
                  /\ Vars!Acts[k].vars[n] = IF calls[k].base = 0 THEN Absent ELSE fr.vars[n]
                  /\ n \in Vars!Acts[k].own <=> calls[k].base # 0 /\ fr.keys[n] # Vars!NoKey
  <2> DEFINE a == calls[k]
             vs == [n \in Names |-> IF a.base = 0 THEN Absent ELSE var_frames[a.base].vars[n]]
             o == {n \in Names : a.base # 0 /\ var_frames[a.base].keys[n] # Vars!NoKey}
             r == [func |-> a.func, blocks |-> a.blocks, vars |-> vs, own |-> o]
  <2>1. Vars!Acts[k] = r
    BY <1>1 DEF Vars!Acts, Vars!ActOf
  <2>0. calls # <<>> /\ a \in Vars!Activation
    BY <1>1
  <2>2. a.func \in Vars!Bodies /\ a.blocks \in Seq(Vars!Values)
    <3> HIDE DEF a
    <3> QED
      BY <2>0 DEF Vars!Activation
  <2>3. vs \in [Names -> Vars!Values \cup {Absent}] /\ o \in SUBSET Names
    <3>1. calls # <<>> /\ a.base \in 0 .. Len(var_frames) /\ Len(var_frames) \in Nat
      BY <2>0, VarsFacts
    <3>2. ASSUME a.base # 0 PROVE var_frames[a.base] \in Vars!Frame
      <4>1. a.base \in 1 .. Len(var_frames)
        BY <3>1, <3>2
      <4> QED
        BY <3>1, <4>1, VarsFacts
    <3>3. ASSUME NEW n \in Names
          PROVE  (IF a.base = 0 THEN Absent ELSE var_frames[a.base].vars[n])
                   \in Vars!Values \cup {Absent}
      BY <3>2, BasicNames DEF Vars!Frame
    <3> QED
      BY <3>3
  <2>4. r \in ActSet
    <3> HIDE DEF a, vs, o
    <3> QED
      BY <2>2, <2>3, ActIs
  <2>5. r.func = a.func /\ r.blocks = a.blocks /\ r.vars = vs /\ r.own = o
    OBVIOUS
  <2> HIDE DEF r
  <2> QED
    BY <2>1, <2>4, <2>5
<1>3. Vars!Acts \in [1 .. Len(calls) -> ActSet]
  BY <1>1, <1>2 DEF Vars!Acts
<1> QED
  BY <1>1, <1>2, <1>3, FunctionIsSequence DEF ActsFit

LEMMA StatsAre == VarsInv => StatsFit /\ GlobsFit
<1> SUFFICES ASSUME VarsInv PROVE StatsFit /\ GlobsFit
  OBVIOUS
<1>1. /\ staticVars \in [Vars!Keys -> Vars!Values \cup {Absent}]
      /\ globals \in [Vars!Stored -> Vars!Values \cup {Absent}]
  BY DEF VarsInv, Vars!TypeOK
<1>2. GlobsFit
  BY <1>1, BasicNames DEF GlobsFit, Vars!GlobalValues
<1>3. ASSUME NEW f \in Vars!Bodies, NEW n \in Names
      PROVE  /\ Vars!StaticValues[f][n] =
               IF f = Vars!TopLevel THEN Absent ELSE staticVars[<<KeyOf(f), n>>]
             /\ Vars!StaticValues[f][n] \in Vars!Values \cup {Absent}
  <2>1. Vars!StaticValues[f][n] = Vars!StaticOf(f, n)
    BY DEF Vars!StaticValues
  <2>2. f # Vars!TopLevel => KeyOf(f) = IF f = Vars!Main THEN Vars!NoName ELSE f
    BY BasicNames DEF KeyOf, Vars!Bodies
  <2>3. <<KeyOf(f), n>> \in Vars!Keys
    BY DEF Vars!Keys, KeyOf
  <2> QED
    BY <1>1, <2>1, <2>2, <2>3 DEF Vars!StaticOf
<1>4. Vars!TopLevel \in Vars!Bodies
  BY DEF Vars!Bodies
<1>5. StatsFit
  <2>1. Vars!StaticValues \in [Vars!Bodies -> [Names -> Vars!Values \cup {Absent}]]
    <3>1. ASSUME NEW f \in Vars!Bodies
          PROVE Vars!StaticValues[f] \in [Names -> Vars!Values \cup {Absent}]
      <4>1. Vars!StaticValues[f] = [n \in Names |-> Vars!StaticOf(f, n)]
        BY DEF Vars!StaticValues
      <4>2. \A n \in Names : Vars!StaticValues[f][n] \in Vars!Values \cup {Absent}
        BY <1>3
      <4> QED
        BY <4>1, <4>2
    <3>2. Vars!StaticValues = [f \in Vars!Bodies |-> Vars!StaticValues[f]]
      BY DEF Vars!StaticValues
    <3> QED
      BY <3>1, <3>2
  <2> QED
    BY <1>3, <1>4, <2>1 DEF StatsFit
<1> QED
  BY <1>2, <1>5

LEMMA FitNext == VarsInv' => ActsFit' /\ StatsFit' /\ GlobsFit'
BY ActsAre, StatsAre, PTL

LEMMA GlobalsStay ==
  ASSUME VarsInv, VarsInv', \A n \in Names : globals'[n] = globals[n]
  PROVE  Vars!GlobalValues' = Vars!GlobalValues
<1>1. GlobsFit /\ GlobsFit'
  BY StatsAre, FitNext
<1> QED
  BY <1>1 DEF GlobsFit

LEMMA StaticsStay ==
  ASSUME staticVars' = staticVars
  PROVE  Vars!StaticValues' = Vars!StaticValues
BY DEF Vars!StaticValues, Vars!StaticOf

\* Setting an entry of a table.
LEMMA EntrySet ==
  ASSUME NEW A, NEW B, NEW C, NEW s \in [A -> [B -> C]], NEW t \in [A -> [B -> C]],
         NEW a \in A, NEW b \in B,
         \A f \in A : \A n \in B : <<f, n>> # <<a, b>> => t[f][n] = s[f][n]
  PROVE  t = [s EXCEPT ![a][b] = t[a][b]]
<1>1. \A f \in A : f # a => t[f] = s[f]
  OBVIOUS
<1>2. t[a] = [s[a] EXCEPT ![b] = t[a][b]]
  OBVIOUS
<1>3. t = [s EXCEPT ![a] = t[a]]
  BY <1>1
<1> QED
  BY <1>2, <1>3

\* The running activation.
LEMMA TopAct ==
  ASSUME VarsInv, calls # <<>>
  PROVE  /\ Vars!Acts \in Seq(ActSet) /\ Len(Vars!Acts) = Len(calls) /\ Vars!Acts # <<>>
         /\ Vars!Acts[Len(Vars!Acts)] \in ActSet
         /\ Vars!Acts[Len(Vars!Acts)].func = Vars!Running.func
         /\ Vars!Acts[Len(Vars!Acts)].blocks = Vars!Running.blocks
         /\ \A n \in Names :
              LET fr == var_frames[Len(var_frames)] IN
              /\ Vars!Acts[Len(Vars!Acts)].vars[n] =
                   IF Len(var_frames) = 0 THEN Absent ELSE fr.vars[n]
              /\ n \in Vars!Acts[Len(Vars!Acts)].own <=>
                   Len(var_frames) # 0 /\ fr.keys[n] # Vars!NoKey
<1>1. /\ Vars!Acts \in Seq(ActSet) /\ Len(Vars!Acts) = Len(calls) /\ Len(calls) \in 1 .. Len(calls)
      /\ Vars!Running = calls[Len(calls)] /\ calls[Len(calls)].base = Len(var_frames)
  BY ActsAre, VarsFacts DEF ActsFit
<1>2. Vars!Acts # <<>> /\ Vars!Acts[Len(Vars!Acts)] \in ActSet
  BY <1>1
<1> QED
  BY <1>1, <1>2, ActsAre DEF ActsFit

TopFit == calls # <<>> =>
  /\ Vars!Acts \in Seq(ActSet) /\ Len(Vars!Acts) = Len(calls) /\ Vars!Acts # <<>>
  /\ Vars!Acts[Len(Vars!Acts)] \in ActSet
  /\ Vars!Acts[Len(Vars!Acts)].func = calls[Len(calls)].func
  /\ Vars!Acts[Len(Vars!Acts)].blocks = calls[Len(calls)].blocks
  /\ \A n \in Names :
       LET fr == var_frames[Len(var_frames)] IN
       /\ Vars!Acts[Len(Vars!Acts)].vars[n] = IF Len(var_frames) = 0 THEN Absent ELSE fr.vars[n]
       /\ n \in Vars!Acts[Len(Vars!Acts)].own <=> Len(var_frames) # 0 /\ fr.keys[n] # Vars!NoKey

LEMMA TopFits == VarsInv => TopFit
BY TopAct DEF TopFit, Vars!Running

LEMMA TopFitsNext == VarsInv' => TopFit'
BY TopFits, PTL

LEMMA TopActNext ==
  ASSUME VarsInv', calls' # <<>>
  PROVE  /\ Vars!Acts' \in Seq(ActSet) /\ Len(Vars!Acts') = Len(calls') /\ Vars!Acts' # <<>>
         /\ Vars!Acts'[Len(Vars!Acts')] \in ActSet
         /\ Vars!Acts'[Len(Vars!Acts')].func = calls'[Len(calls')].func
         /\ Vars!Acts'[Len(Vars!Acts')].blocks = calls'[Len(calls')].blocks
         /\ \A n \in Names :
              LET fr == var_frames'[Len(var_frames')] IN
              /\ Vars!Acts'[Len(Vars!Acts')].vars[n] =
                   IF Len(var_frames') = 0 THEN Absent ELSE fr.vars[n]
              /\ n \in Vars!Acts'[Len(Vars!Acts')].own <=>
                   Len(var_frames') # 0 /\ fr.keys[n] # Vars!NoKey
BY TopFitsNext DEF TopFit

\* Steps that change at most the running activation.
LEMMA TopTurns ==
  ASSUME VarsInv, VarsInv', calls # <<>>, SameStack,
         \A k \in 1 .. Len(var_frames) : k # Len(var_frames) =>
           /\ var_frames'[k].keys = var_frames[k].keys
           /\ \A n \in Names : var_frames'[k].vars[n] = var_frames[k].vars[n]
  PROVE  /\ Len(Vars!Acts') = Len(Vars!Acts) /\ Vars!Acts'[Len(Vars!Acts)] \in ActSet
         /\ Vars!Acts' = [Vars!Acts EXCEPT ![Len(Vars!Acts)] = Vars!Acts'[Len(Vars!Acts)]]
         /\ Vars!Acts'[Len(Vars!Acts)].func = Vars!Running.func
         /\ Vars!Acts'[Len(Vars!Acts)].blocks = calls'[Len(calls)].blocks
         /\ \A n \in Names :
              LET fr == var_frames'[Len(var_frames)] IN
              /\ Vars!Acts'[Len(Vars!Acts)].vars[n] =
                   IF Len(var_frames) = 0 THEN Absent ELSE fr.vars[n]
              /\ n \in Vars!Acts'[Len(Vars!Acts)].own <=>
                   Len(var_frames) # 0 /\ fr.keys[n] # Vars!NoKey
<1>1. /\ calls' # <<>> /\ Len(calls') = Len(calls) /\ Len(var_frames') = Len(var_frames)
      /\ calls'[Len(calls)].func = Vars!Running.func
  BY StackKept, VarsFacts DEF SameStack
<1>2. Vars!Acts \in Seq(ActSet) /\ Vars!Acts' \in Seq(ActSet) /\ Vars!Acts # <<>>
      /\ Len(Vars!Acts) = Len(calls) /\ Len(Vars!Acts') = Len(calls)
  BY <1>1, TopAct, TopActNext
<1>3. \A k \in 1 .. Len(Vars!Acts) : k # Len(Vars!Acts) => Vars!Acts'[k] = Vars!Acts[k]
  <2>1. ASSUME NEW k \in 1 .. Len(Vars!Acts), k # Len(Vars!Acts) PROVE Vars!Acts'[k] = Vars!Acts[k]
    <3>1. /\ k \in 1 .. Len(calls) /\ k \in 1 .. Len(calls') /\ calls'[k] = calls[k]
          /\ calls[k].base \in 0 .. Len(var_frames) /\ calls[k].base # Len(var_frames)
          /\ Len(var_frames) \in Nat
      BY <1>1, <1>2, <2>1, VarsFacts DEF SameStack
    <3>2. Vars!Acts[k] \in ActSet /\ Vars!Acts'[k] \in ActSet
      BY <1>2, <2>1
    <3>3. Vars!Acts'[k].func = Vars!Acts[k].func /\ Vars!Acts'[k].blocks = Vars!Acts[k].blocks
      BY <3>1, ActsAre, FitNext DEF ActsFit
    <3>4. ASSUME calls[k].base # 0
          PROVE  LET fr == var_frames[calls[k].base]
                     gr == var_frames'[calls[k].base]
                 IN  gr.keys = fr.keys /\ \A n \in Names : gr.vars[n] = fr.vars[n]
      <4>1. calls[k].base \in 1 .. Len(var_frames)
        BY <3>1, <3>4
      <4> QED
        BY <3>1, <4>1
    <3>5. ASSUME NEW n \in Names
          PROVE  /\ Vars!Acts'[k].vars[n] = Vars!Acts[k].vars[n]
                 /\ (n \in Vars!Acts'[k].own <=> n \in Vars!Acts[k].own)
      <4>1. LET fr == var_frames[calls[k].base] IN
            /\ Vars!Acts[k].vars[n] = IF calls[k].base = 0 THEN Absent ELSE fr.vars[n]
            /\ n \in Vars!Acts[k].own <=> calls[k].base # 0 /\ fr.keys[n] # Vars!NoKey
        BY <3>1, ActsAre DEF ActsFit
      <4>2. LET fr == var_frames'[calls[k].base] IN
            /\ Vars!Acts'[k].vars[n] = IF calls[k].base = 0 THEN Absent ELSE fr.vars[n]
            /\ n \in Vars!Acts'[k].own <=> calls[k].base # 0 /\ fr.keys[n] # Vars!NoKey
        BY <3>1, FitNext DEF ActsFit
      <4> QED
        BY <3>4, <4>1, <4>2
    <3> QED
      BY <3>2, <3>3, <3>5, SameAct
  <2> QED
    BY <2>1
<1>4. Vars!Acts' = [Vars!Acts EXCEPT ![Len(Vars!Acts)] = Vars!Acts'[Len(Vars!Acts)]]
  BY <1>2, <1>3, TurnedIs
<1> QED
  BY <1>1, <1>2, <1>4, TopActNext

\* The running activation sets a variable of its own.
LEMMA VariableSet ==
  ASSUME VarsInv, VarsInv', calls # <<>>, SameStack, Len(var_frames) # 0,
         NEW n \in Names, NEW v \in Vars!Values,
         var_frames' = SetVariable(var_frames, Len(var_frames), n, v),
         calls'[Len(calls)].blocks = Vars!Running.blocks
  PROVE  Vars!Acts' = [Vars!Acts EXCEPT ![Len(Vars!Acts)] =
             [Vars!Acts[Len(Vars!Acts)] EXCEPT !.vars[n] = v]]
<1> DEFINE F == Len(var_frames)
           a == Vars!Acts[Len(Vars!Acts)]
           b == [a EXCEPT !.vars[n] = v]
<1>1. /\ F \in 1 .. F /\ var_frames \in Seq(Vars!Frame)
      /\ n \in Vars!Stored /\ Names \subseteq Vars!Stored
  <2>1. F \in Nat /\ var_frames \in Seq(Vars!Frame)
    BY VarsFacts
  <2>2. n \in Vars!Stored /\ Names \subseteq Vars!Stored
    BY BasicNames
  <2> QED
    BY <2>1, <2>2
<1>2. /\ \A j \in 1 .. F : var_frames'[j].keys = var_frames[j].keys
      /\ \A j \in 1 .. F : j # F => var_frames'[j] = var_frames[j]
      /\ \A m \in Vars!Stored : var_frames'[F].vars[m] =
              IF m = n THEN v ELSE var_frames[F].vars[m]
  BY <1>1, SetVariableIs
<1>3. /\ b \in ActSet /\ b.func = a.func /\ b.blocks = a.blocks /\ b.own = a.own
      /\ \A m \in Names : b.vars[m] = IF m = n THEN v ELSE a.vars[m]
  <2>1. a \in ActSet
    BY TopAct
  <2> HIDE DEF a
  <2> QED
    BY <2>1 DEF ActSet
<1> HIDE DEF b
<1>4. /\ Vars!Acts'[Len(Vars!Acts)] \in ActSet
      /\ Vars!Acts' = [Vars!Acts EXCEPT ![Len(Vars!Acts)] = Vars!Acts'[Len(Vars!Acts)]]
      /\ Vars!Acts'[Len(Vars!Acts)].func = Vars!Running.func
      /\ Vars!Acts'[Len(Vars!Acts)].blocks = calls'[Len(calls)].blocks
      /\ \A m \in Names :
           /\ Vars!Acts'[Len(Vars!Acts)].vars[m] = var_frames'[F].vars[m]
           /\ m \in Vars!Acts'[Len(Vars!Acts)].own <=> var_frames'[F].keys[m] # Vars!NoKey
  BY <1>2, TopTurns
<1>5. /\ a.func = Vars!Running.func /\ a.blocks = Vars!Running.blocks
      /\ \A m \in Names :
           /\ a.vars[m] = var_frames[F].vars[m]
           /\ m \in a.own <=> var_frames[F].keys[m] # Vars!NoKey
  BY TopAct
<1> HIDE DEF a
<1>6. ASSUME NEW m \in Names
      PROVE  /\ Vars!Acts'[Len(Vars!Acts)].vars[m] = b.vars[m]
             /\ (m \in Vars!Acts'[Len(Vars!Acts)].own <=> m \in b.own)
  <2>1. /\ Vars!Acts'[Len(Vars!Acts)].vars[m] = var_frames'[F].vars[m]
        /\ m \in Vars!Acts'[Len(Vars!Acts)].own <=> var_frames'[F].keys[m] # Vars!NoKey
    BY <1>4
  <2>2. /\ a.vars[m] = var_frames[F].vars[m]
        /\ m \in a.own <=> var_frames[F].keys[m] # Vars!NoKey
    BY <1>5
  <2>3. /\ var_frames'[F].keys = var_frames[F].keys
        /\ var_frames'[F].vars[m] = IF m = n THEN v ELSE var_frames[F].vars[m]
    BY <1>1, <1>2
  <2>4. b.vars[m] = IF m = n THEN v ELSE a.vars[m]
    BY <1>3
  <2> QED
    BY <1>3, <2>1, <2>2, <2>3, <2>4
<1>7. Vars!Acts'[Len(Vars!Acts)].func = b.func /\ Vars!Acts'[Len(Vars!Acts)].blocks = b.blocks
  BY <1>3, <1>4, <1>5
<1>8. Vars!Acts'[Len(Vars!Acts)] = b
  BY <1>3, <1>4, <1>6, <1>7, SameAct
<1> QED
  BY <1>4, <1>8 DEF a, b

LEMMA ActsStay ==
  ASSUME VarsInv, VarsInv', calls # <<>>, SameStack,
         \A k \in 1 .. Len(var_frames) :
           /\ var_frames'[k].keys = var_frames[k].keys
           /\ \A n \in Names : var_frames'[k].vars[n] = var_frames[k].vars[n],
         calls'[Len(calls)].blocks = Vars!Running.blocks
  PROVE  Vars!Acts' = Vars!Acts
<1> DEFINE F == Len(var_frames)
<1>1. /\ Vars!Acts'[Len(Vars!Acts)] \in ActSet
      /\ Vars!Acts' = [Vars!Acts EXCEPT ![Len(Vars!Acts)] = Vars!Acts'[Len(Vars!Acts)]]
      /\ Vars!Acts'[Len(Vars!Acts)].func = Vars!Running.func
      /\ Vars!Acts'[Len(Vars!Acts)].blocks = calls'[Len(calls)].blocks
      /\ \A m \in Names :
           /\ Vars!Acts'[Len(Vars!Acts)].vars[m] = IF F = 0 THEN Absent ELSE var_frames'[F].vars[m]
           /\ m \in Vars!Acts'[Len(Vars!Acts)].own <=> F # 0 /\ var_frames'[F].keys[m] # Vars!NoKey
  BY TopTurns
<1>2. F # 0 => F \in 1 .. F
  BY VarsFacts
<1>3. /\ Vars!Acts[Len(Vars!Acts)] \in ActSet /\ Vars!Acts \in Seq(ActSet) /\ Vars!Acts # <<>>
      /\ Vars!Acts[Len(Vars!Acts)].func = Vars!Running.func
      /\ Vars!Acts[Len(Vars!Acts)].blocks = Vars!Running.blocks
      /\ \A m \in Names :
           /\ Vars!Acts[Len(Vars!Acts)].vars[m] = IF F = 0 THEN Absent ELSE var_frames[F].vars[m]
           /\ m \in Vars!Acts[Len(Vars!Acts)].own <=> F # 0 /\ var_frames[F].keys[m] # Vars!NoKey
  BY TopAct
<1>4. \A m \in Names :
        /\ Vars!Acts'[Len(Vars!Acts)].vars[m] = Vars!Acts[Len(Vars!Acts)].vars[m]
        /\ m \in Vars!Acts'[Len(Vars!Acts)].own <=> m \in Vars!Acts[Len(Vars!Acts)].own
  BY <1>1, <1>2, <1>3
<1>5. Vars!Acts'[Len(Vars!Acts)] = Vars!Acts[Len(Vars!Acts)]
  BY <1>1, <1>3, <1>4, SameAct
<1> QED
  BY <1>1, <1>3, <1>5

LEMMA GlobalSet ==
  ASSUME VarsInv, VarsInv', NEW n \in Names, NEW v \in Vars!Values,
         globals' = [globals EXCEPT ![n] = v]
  PROVE  Vars!GlobalValues' = [Vars!GlobalValues EXCEPT ![n] = v]
<1>1. GlobsFit /\ GlobsFit'
  BY StatsAre, FitNext
<1>2. /\ globals \in [Vars!Stored -> Vars!Values \cup {Absent}] /\ Names \subseteq Vars!Stored
  BY BasicNames DEF VarsInv, Vars!TypeOK
<1>3. \A m \in Names : globals'[m] = IF m = n THEN v ELSE globals[m]
  BY <1>2
<1> QED
  BY <1>1, <1>3 DEF GlobsFit

LEMMA StaticSet ==
  ASSUME VarsInv, VarsInv', calls # <<>>, Vars!Running.func # Vars!TopLevel,
         NEW n \in Names, NEW v,
         staticVars' = [staticVars EXCEPT ![<<var_func, n>>] = v]
  PROVE  /\ Vars!StaticValues[Vars!Running.func][n] = staticVars[<<var_func, n>>]
         /\ Vars!StaticValues' = [Vars!StaticValues EXCEPT ![Vars!Running.func][n] = v]
<1> DEFINE f == Vars!Running.func
<1>1. StatsFit /\ StatsFit'
  BY StatsAre, FitNext
<1>2. /\ staticVars \in [Vars!Keys -> Vars!Values \cup {Absent}]
      /\ f \in Vars!Bodies /\ var_func = KeyOf(f)
  BY VarsFacts DEF Vars!TypeOK, Vars!Activation
<1>3. \A g \in Vars!Bodies : \A m \in Names : <<KeyOf(g), m>> \in Vars!Keys
  BY DEF Vars!Keys, KeyOf
<1>4. \A g \in Vars!Bodies \ {Vars!TopLevel} : KeyOf(g) = KeyOf(f) => g = f
  BY <1>2, VarsAssumption DEF KeyOf, Vars!Bodies
<1> HIDE DEF f
<1>5. ASSUME NEW g \in Vars!Bodies, NEW m \in Names
      PROVE  Vars!StaticValues'[g][m] = IF g = f /\ m = n THEN v ELSE Vars!StaticValues[g][m]
  <2>1. CASE g = Vars!TopLevel
    BY <1>1, <2>1 DEF StatsFit, f
  <2>2. CASE g # Vars!TopLevel
    <3>1. /\ Vars!StaticValues'[g][m] = staticVars'[<<KeyOf(g), m>>]
          /\ Vars!StaticValues[g][m] = staticVars[<<KeyOf(g), m>>]
      BY <1>1, <2>2 DEF StatsFit
    <3>2. <<KeyOf(g), m>> = <<var_func, n>> <=> g = f /\ m = n
      BY <1>2, <1>4, <2>2
    <3> QED
      BY <1>2, <1>3, <3>1, <3>2
  <2> QED
    BY <2>1, <2>2
<1>6. /\ Vars!StaticValues' = [Vars!StaticValues EXCEPT ![f][n] = Vars!StaticValues'[f][n]]
      /\ Vars!StaticValues'[f][n] = v
  <2>1. \A g \in Vars!Bodies : \A m \in Names :
          <<g, m>> # <<f, n>> => Vars!StaticValues'[g][m] = Vars!StaticValues[g][m]
    BY <1>5
  <2> QED
    BY <1>1, <1>2, <1>5, <2>1, EntrySet DEF StatsFit
<1> QED
  BY <1>1, <1>2, <1>6 DEF StatsFit, f

LEMMA LexNames ==
  /\ Vars!Lex!TopLevel = Vars!TopLevel /\ Vars!Lex!Main = Vars!Main /\ Vars!Lex!Try = Vars!Try
  /\ Vars!Lex!Values = Vars!Values /\ Vars!Lex!Codes = Vars!Codes
  /\ Vars!Lex!Bodies = Vars!Bodies /\ Vars!Lex!Declarations = Vars!Declarations
BY DEF Vars!Lex!TopLevel, Vars!TopLevel, Vars!Lex!Main, Vars!Main, Vars!Lex!Try, Vars!Try,
       Vars!Lex!Values, Vars!Values, Vars!Lex!Codes, Vars!Codes, Vars!Lex!Bodies, Vars!Bodies,
       Vars!Lex!Declarations, Vars!Declarations

LEMMA DeclareStep ==
  ASSUME VarsInv, VarsInv', NEW n \in Names, NEW v \in Vars!Values, Vars!Declare(n, v)
  PROVE  Vars!Lex!Declare(n, v)
<1> DEFINE F == Len(var_frames)
<1>1. /\ calls # <<>> /\ n \in decls.autos[Vars!Running.func] /\ Vars!Declared(n)
      /\ UNCHANGED <<decls, staticVars, var_func, seen>>
  BY DEF Vars!Declare
<1>2. /\ Vars!Acts # <<>> /\ Vars!Acts[Len(Vars!Acts)].func = Vars!Running.func
      /\ (Vars!Running.func = Vars!TopLevel <=> F = 0) /\ Vars!StaticValues' = Vars!StaticValues
  BY <1>1, TopAct, VarsFacts, StaticsStay
<1>3. CASE F # 0
  <2>1. var_frames' = SetVariable(var_frames, Len(var_frames), n, v) /\ globals' = globals
    BY <1>1, <1>3 DEF Vars!Declare, SetVariable
  <2>2. Len(var_frames) \in 1 .. Len(var_frames) /\ var_frames \in Seq(Vars!Frame)
    BY <1>1, <1>3, VarsFacts
  <2>3. Len(var_frames') = F
    <3>1. n \in Vars!Stored
      BY BasicNames
    <3> QED
      BY <2>1, <2>2, <3>1, SetVariableIs
  <2>4. SameStack /\ calls'[Len(calls)].blocks = Vars!Running.blocks
    BY <1>1, <2>3, DeclaredIs
  <2>5. Vars!Acts' = [Vars!Acts EXCEPT ![Len(Vars!Acts)] =
                  [Vars!Acts[Len(Vars!Acts)] EXCEPT !.vars[n] = v]]
    BY <1>1, <1>3, <2>1, <2>4, VariableSet
  <2>6. Vars!GlobalValues' = Vars!GlobalValues
    BY <2>1, GlobalsStay
  <2> QED
    BY <1>1, <1>2, <1>3, <2>5, <2>6, LexNames
       DEF Vars!Lex!Declare, Vars!Lex!Running, Vars!Lex!Update
<1>4. CASE F = 0
  <2>1. var_frames' = var_frames /\ globals' = [globals EXCEPT ![n] = v]
    BY <1>1, <1>4, VarsFacts DEF Vars!Declare
  <2>2. SameStack /\ calls'[Len(calls)].blocks = Vars!Running.blocks
    BY <1>1, <2>1, DeclaredIs
  <2>3. Vars!Acts' = Vars!Acts
    BY <1>1, <2>1, <2>2, ActsStay
  <2>4. Vars!GlobalValues' = [Vars!GlobalValues EXCEPT ![n] = v]
    BY <2>1, GlobalSet
  <2> QED
    BY <1>1, <1>2, <1>4, <2>3, <2>4, LexNames
       DEF Vars!Lex!Declare, Vars!Lex!Running, Vars!Lex!Update
<1> QED
  BY <1>3, <1>4

LEMMA DeclareStaticStep ==
  ASSUME VarsInv, VarsInv', NEW n \in Names, NEW v \in Vars!Values, Vars!DeclareStatic(n, v)
  PROVE  Vars!Lex!DeclareStatic(n, v)
<1> DEFINE F == Len(var_frames)
           f == Vars!Running.func
           key == <<var_func, n>>
           a == Vars!Acts[Len(Vars!Acts)]
           b == [a EXCEPT !.own = @ \cup {n}]
           b1 == Vars!Acts'[Len(Vars!Acts)]
<1>1. /\ calls # <<>> /\ n \in decls.statics[f] /\ Vars!Declared(n)
      /\ staticVars' = [staticVars EXCEPT ![key] = IF @ = Absent THEN v ELSE @]
      /\ UNCHANGED <<decls, globals, var_func, seen>>
  BY DEF Vars!DeclareStatic
<1>2. f # Vars!TopLevel /\ F # 0 /\ var_frames # <<>>
  BY <1>1, VarsFacts DEF Tame
<1>3. key \in Vars!Keys /\ key # Vars!NoKey /\ n \in Vars!Stored /\ Names \subseteq Vars!Stored
  <2>1. var_func \in Funcs \cup {Vars!NoName}
    BY <1>1, VarsFacts DEF Vars!TypeOK
  <2> QED
    BY <2>1, BasicNames DEF Vars!Keys, Vars!NoKey
<1>4. var_frames' = SetKey(var_frames, Len(var_frames), n, key)
  BY <1>1, <1>2 DEF Vars!DeclareStatic, SetKey
<1>5. F \in 1 .. F /\ var_frames \in Seq(Vars!Frame)
  BY <1>1, <1>2, VarsFacts
<1> HIDE DEF key
<1>6. /\ Len(var_frames') = F
      /\ \A j \in 1 .. F : var_frames'[j].vars = var_frames[j].vars
      /\ \A j \in 1 .. F : j # F => var_frames'[j] = var_frames[j]
      /\ \A m \in Vars!Stored :
           var_frames'[F].keys[m] = IF m = n THEN key ELSE var_frames[F].keys[m]
  BY <1>3, <1>4, <1>5, SetKeyIs
<1>7. SameStack /\ calls'[Len(calls)].blocks = Vars!Running.blocks
  BY <1>1, <1>6, DeclaredIs
<1>8. /\ b1 \in ActSet /\ Vars!Acts' = [Vars!Acts EXCEPT ![Len(Vars!Acts)] = b1]
      /\ b1.func = f /\ b1.blocks = Vars!Running.blocks
      /\ \A m \in Names :
           /\ b1.vars[m] = var_frames'[F].vars[m]
           /\ m \in b1.own <=> var_frames'[F].keys[m] # Vars!NoKey
  BY <1>1, <1>2, <1>6, <1>7, TopTurns
<1>9. /\ a \in ActSet /\ a.func = f /\ a.blocks = Vars!Running.blocks /\ Vars!Acts # <<>>
      /\ \A m \in Names :
           /\ a.vars[m] = var_frames[F].vars[m]
           /\ m \in a.own <=> var_frames[F].keys[m] # Vars!NoKey
  BY <1>1, <1>2, TopAct
<1> HIDE DEF a, b1
<1>10. /\ b \in ActSet /\ b.func = a.func /\ b.blocks = a.blocks /\ b.vars = a.vars
       /\ b.own = a.own \cup {n}
  BY <1>9 DEF ActSet
<1> HIDE DEF b
<1>11. ASSUME NEW m \in Names
       PROVE  b1.vars[m] = b.vars[m] /\ (m \in b1.own <=> m \in b.own)
  <2>1. /\ b1.vars[m] = var_frames'[F].vars[m]
        /\ m \in b1.own <=> var_frames'[F].keys[m] # Vars!NoKey
    BY <1>8
  <2>2. /\ a.vars[m] = var_frames[F].vars[m]
        /\ m \in a.own <=> var_frames[F].keys[m] # Vars!NoKey
    BY <1>9
  <2>3. /\ var_frames'[F].vars = var_frames[F].vars
        /\ var_frames'[F].keys[m] = IF m = n THEN key ELSE var_frames[F].keys[m]
    BY <1>3, <1>5, <1>6
  <2> QED
    BY <1>3, <1>10, <2>1, <2>2, <2>3
<1>12. b1 = b
  BY <1>8, <1>9, <1>10, <1>11, SameAct
<1>13. Vars!Acts' = [Vars!Acts EXCEPT ![Len(Vars!Acts)] =
                       [Vars!Acts[Len(Vars!Acts)] EXCEPT !.own = @ \cup {n}]]
  BY <1>8, <1>12 DEF a, b
<1>14. Vars!GlobalValues' = Vars!GlobalValues
  BY <1>1, GlobalsStay
<1>15. Vars!StaticValues' = [Vars!StaticValues EXCEPT ![f][n] = IF @ = Absent THEN v ELSE @]
  <2> DEFINE w == IF staticVars[key] = Absent THEN v ELSE staticVars[key]
  <2>1. staticVars' = [staticVars EXCEPT ![key] = w]
    BY <1>1
  <2> HIDE DEF w
  <2>2. /\ Vars!StaticValues[f][n] = staticVars[key]
        /\ Vars!StaticValues' = [Vars!StaticValues EXCEPT ![f][n] = w]
    BY <1>1, <1>2, <2>1, StaticSet DEF key
  <2>3. w = IF Vars!StaticValues[f][n] = Absent THEN v ELSE Vars!StaticValues[f][n]
    BY <2>2 DEF w
  <2> QED
    BY <2>2, <2>3
<1> HIDE DEF F
<1> QED
  BY <1>1, <1>2, <1>9, <1>13, <1>14, <1>15, LexNames
     DEF Vars!Lex!DeclareStatic, Vars!Lex!Running, Vars!Lex!Update, a

LEMMA AssignStep ==
  ASSUME VarsInv, VarsInv', NEW n \in Names, NEW v \in Vars!Values, Vars!Assign(n, v)
  PROVE  Vars!Lex!Assign(n, v)
<1> DEFINE F == Len(var_frames)
           a == Vars!Acts[Len(Vars!Acts)]
<1>1. /\ calls # <<>> /\ UNCHANGED <<decls, var_func, calls, known, seen>>
  BY DEF Vars!Assign, Vars!Resolves
<1>2. /\ Vars!Acts # <<>> /\ a.func = Vars!Running.func
      /\ a.vars[n] = IF F = 0 THEN Absent ELSE var_frames[F].vars[n]
      /\ n \in a.own <=> F # 0 /\ var_frames[F].keys[n] # Vars!NoKey
  BY <1>1, TopAct
<1>3. /\ calls \in Seq(Vars!Activation) /\ calls'[Len(calls)].blocks = Vars!Running.blocks
      /\ Len(var_frames') = F => SameStack
  BY <1>1, VarsFacts DEF SameStack
<1>4. n \in Vars!Stored /\ var_frames \in Seq(Vars!Frame) /\ (F # 0 => F \in 1 .. F)
  <2>1. F \in Nat /\ var_frames \in Seq(Vars!Frame)
    BY <1>1, VarsFacts
  <2>2. n \in Vars!Stored
    BY BasicNames
  <2> QED
    BY <2>1, <2>2
<1>5. CASE InFrame(n, v)
  <2>1. /\ var_frames' = SetVariable(var_frames, Len(var_frames), n, v) /\ F # 0
        /\ UNCHANGED <<globals, staticVars>>
        /\ var_frames[F].keys[n] = Vars!NoKey /\ var_frames[F].vars[n] # Absent
    BY <1>5 DEF InFrame, SetVariable
  <2>2. Len(var_frames') = F
    BY <1>4, <2>1, SetVariableIs
  <2>3. Vars!Acts' = [Vars!Acts EXCEPT ![Len(Vars!Acts)] =
                        [Vars!Acts[Len(Vars!Acts)] EXCEPT !.vars[n] = v]]
    BY <1>1, <1>3, <2>1, <2>2, VariableSet
  <2>4. Vars!GlobalValues' = Vars!GlobalValues /\ Vars!StaticValues' = Vars!StaticValues
    BY <2>1, GlobalsStay, StaticsStay
  <2>5. n \notin a.own /\ a.vars[n] # Absent
    BY <1>2, <2>1
  <2> QED
    BY <1>1, <1>2, <2>3, <2>4, <2>5
       DEF Vars!Lex!Assign, Vars!Lex!IsLocal, Vars!Lex!IsStatic, Vars!Lex!Running, Vars!Lex!Update
<1>6. CASE InStatic(n, v)
  <2>1. /\ var_frames' = var_frames /\ F # 0 /\ globals' = globals
        /\ var_frames[F].keys[n] = <<var_func, n>>
        /\ staticVars' = [staticVars EXCEPT ![<<var_func, n>>] = v]
    BY <1>6 DEF InStatic
  <2>2. n \in a.own /\ Vars!Running.func # Vars!TopLevel
    BY <1>1, <1>2, <2>1, VarsFacts DEF Vars!NoKey
  <2>3. Vars!StaticValues' = [Vars!StaticValues EXCEPT ![Vars!Running.func][n] = v]
    BY <1>1, <2>1, <2>2, StaticSet
  <2>4. Vars!GlobalValues' = Vars!GlobalValues /\ Vars!Acts' = Vars!Acts
    BY <1>1, <1>3, <2>1, GlobalsStay, ActsStay
  <2> QED
    BY <1>1, <1>2, <2>2, <2>3, <2>4
       DEF Vars!Lex!Assign, Vars!Lex!IsStatic, Vars!Lex!Running
<1>7. CASE InGlobal(n, v)
  <2>1. /\ var_frames' = var_frames /\ staticVars' = staticVars /\ globals[n] # Absent
        /\ \A k \in 1 .. F : ~ Vars!Holds(var_frames[k], n)
        /\ globals' = [globals EXCEPT ![n] = v]
    BY <1>7 DEF InGlobal
  <2>2. n \notin a.own /\ a.vars[n] = Absent
    BY <1>2, <1>4, <2>1 DEF Vars!Holds
  <2>3. Vars!GlobalValues' = [Vars!GlobalValues EXCEPT ![n] = v]
    BY <2>1, GlobalSet
  <2>4. Vars!StaticValues' = Vars!StaticValues /\ Vars!Acts' = Vars!Acts
    BY <1>1, <1>3, <2>1, StaticsStay, ActsStay
  <2>5. Vars!GlobalValues[n] # Absent
    BY <2>1, StatsAre DEF GlobsFit
  <2> QED
    BY <1>1, <1>2, <2>2, <2>3, <2>4, <2>5
       DEF Vars!Lex!Assign, Vars!Lex!IsGlobal, Vars!Lex!IsLocal, Vars!Lex!IsStatic,
           Vars!Lex!Running
<1> QED
  BY <1>5, <1>6, <1>7, AssignIs

LEMMA ReadStep ==
  ASSUME VarsInv, VarsInv', NEW n \in Names, Vars!Read(n)
  PROVE  Vars!Lex!Read(n)
<1> DEFINE F == Len(var_frames)
           a == Vars!Acts[Len(Vars!Acts)]
<1>1. /\ calls # <<>> /\ n \in Vars!Running.declared \cup known /\ seen' = Vars!getVar(n)
      /\ UNCHANGED <<decls, var_frames, globals, staticVars, var_func, calls, known>>
  BY DEF Vars!Read, Vars!Resolves
<1>2. /\ Vars!Acts # <<>> /\ a.func = Vars!Running.func
      /\ a.vars[n] = IF F = 0 THEN Absent ELSE var_frames[F].vars[n]
      /\ n \in a.own <=> F # 0 /\ var_frames[F].keys[n] # Vars!NoKey
  BY <1>1, TopAct
<1>3. /\ Vars!Acts' = Vars!Acts /\ Vars!StaticValues' = Vars!StaticValues
      /\ Vars!GlobalValues' = Vars!GlobalValues
  BY <1>1, StaticsStay DEF Vars!Acts, Vars!ActOf, Vars!GlobalValues
<1>4. \A w : w # Absent => Vars!Default(w) = w
  BY DEF Vars!Default
<1>5. CASE /\ F # 0 /\ Vars!Holders(n) # {} /\ Vars!Newest(n) = F
           /\ Vars!Holds(var_frames[F], n)
  <2> DEFINE fr == var_frames[F]
  <2>1. Vars!getVar(n) = IF fr.keys[n] # Vars!NoKey THEN Vars!Default(staticVars[fr.keys[n]])
                         ELSE fr.vars[n]
    BY <1>5 DEF Vars!getVar
  <2>2. CASE fr.keys[n] # Vars!NoKey
    <3>1. fr.keys[n] = <<var_func, n>> /\ staticVars[<<var_func, n>>] # Absent
      BY <1>1, <1>5, <2>2, TopOwns
    <3>2. seen' = staticVars[<<var_func, n>>]
      BY <1>1, <1>4, <2>1, <2>2, <3>1
    <3>3. Vars!StaticValues[Vars!Running.func][n] = staticVars[<<var_func, n>>]
      <4>1. /\ Vars!Running.func \in Vars!Bodies \ {Vars!TopLevel}
            /\ var_func = KeyOf(Vars!Running.func)
        BY <1>1, <1>5, VarsFacts DEF Vars!Activation
      <4> QED
        BY <4>1, StatsAre DEF StatsFit
    <3> QED
      BY <1>1, <1>2, <1>3, <1>5, <2>2, <3>2, <3>3
         DEF Vars!Lex!Read, Vars!Lex!IsStatic, Vars!Lex!Running
  <2>3. CASE fr.keys[n] = Vars!NoKey
    <3>1. fr.vars[n] # Absent /\ seen' = fr.vars[n]
      BY <1>1, <1>5, <2>1, <2>3 DEF Vars!Holds
    <3> QED
      BY <1>1, <1>2, <1>3, <1>5, <2>3, <3>1
         DEF Vars!Lex!Read, Vars!Lex!IsLocal, Vars!Lex!IsStatic, Vars!Lex!Running
  <2> QED
    BY <2>2, <2>3
<1>6. CASE /\ Vars!Holders(n) = {} /\ globals[n] # Absent
           /\ \A k \in 1 .. F : ~ Vars!Holds(var_frames[k], n)
  <2>1. seen' = globals[n] /\ Vars!GlobalValues[n] = globals[n]
    BY <1>1, <1>4, <1>6, StatsAre DEF Vars!getVar, GlobsFit
  <2>2. F # 0 => F \in 1 .. F
    BY <1>1, VarsFacts
  <2>3. n \notin a.own /\ a.vars[n] = Absent
    BY <1>2, <1>6, <2>2 DEF Vars!Holds
  <2> QED
    BY <1>1, <1>2, <1>3, <1>6, <2>1, <2>3
       DEF Vars!Lex!Read, Vars!Lex!IsGlobal, Vars!Lex!IsLocal, Vars!Lex!IsStatic,
           Vars!Lex!Running
<1> QED
  BY <1>1, <1>5, <1>6, NamesResolve

\* A step that changes the blocks of the running activation.
LEMMA BlocksSet ==
  ASSUME VarsInv, VarsInv', calls # <<>>, SameStack,
         \A k \in 1 .. Len(var_frames) :
           /\ var_frames'[k].keys = var_frames[k].keys
           /\ \A n \in Names : var_frames'[k].vars[n] = var_frames[k].vars[n],
         NEW s, calls'[Len(calls)].blocks = s
  PROVE  /\ [Vars!Acts[Len(Vars!Acts)] EXCEPT !.blocks = s] \in ActSet
         /\ Vars!Acts' = [Vars!Acts EXCEPT ![Len(Vars!Acts)] =
                             [Vars!Acts[Len(Vars!Acts)] EXCEPT !.blocks = s]]
<1> DEFINE F == Len(var_frames)
           a == Vars!Acts[Len(Vars!Acts)]
           b == [a EXCEPT !.blocks = s]
           b1 == Vars!Acts'[Len(Vars!Acts)]
<1>1. /\ b1 \in ActSet /\ Vars!Acts' = [Vars!Acts EXCEPT ![Len(Vars!Acts)] = b1]
      /\ b1.func = Vars!Running.func /\ b1.blocks = s
      /\ \A m \in Names :
           /\ b1.vars[m] = IF F = 0 THEN Absent ELSE var_frames'[F].vars[m]
           /\ m \in b1.own <=> F # 0 /\ var_frames'[F].keys[m] # Vars!NoKey
  BY TopTurns
<1>2. F # 0 => F \in 1 .. F
  BY VarsFacts
<1>3. /\ a \in ActSet /\ a.func = Vars!Running.func
      /\ \A m \in Names :
           /\ a.vars[m] = IF F = 0 THEN Absent ELSE var_frames[F].vars[m]
           /\ m \in a.own <=> F # 0 /\ var_frames[F].keys[m] # Vars!NoKey
  BY TopAct
<1> HIDE DEF a, b1
<1>4. b1.blocks \in Seq(Vars!Values)
  BY <1>1 DEF ActSet
<1>5. /\ b \in ActSet /\ b.func = a.func /\ b.blocks = s /\ b.vars = a.vars /\ b.own = a.own
  BY <1>1, <1>3, <1>4 DEF ActSet
<1> HIDE DEF b
<1>6. ASSUME NEW m \in Names
      PROVE  b1.vars[m] = b.vars[m] /\ (m \in b1.own <=> m \in b.own)
  BY <1>1, <1>2, <1>3, <1>5
<1>7. b1 = b
  BY <1>1, <1>3, <1>5, <1>6, SameAct
<1> QED
  BY <1>1, <1>5, <1>7 DEF a, b

LEMMA EnterTryStep ==
  ASSUME VarsInv, VarsInv', Vars!EnterTry
  PROVE  Vars!Lex!EnterTry
<1> DEFINE s == Append(Vars!Running.blocks, Vars!Try)
<1>1. /\ calls # <<>> /\ Vars!Update([Vars!Running EXCEPT !.blocks = s])
      /\ UNCHANGED <<decls, var_frames, globals, staticVars, var_func, known, seen>>
  BY DEF Vars!EnterTry
<1>2. Vars!Running.blocks \in Seq(Vars!Values) /\ Vars!Try \in Vars!Values
  BY <1>1, BasicNames, VarsFacts DEF Vars!Activation, Vars!Try
<1>3. s \in Seq(Vars!Values)
  BY <1>2
<1> HIDE DEF s
<1>4. SameStack /\ calls'[Len(calls)].blocks = s
  BY <1>1, <1>3, BlocksChange
<1>5. Vars!Acts' = [Vars!Acts EXCEPT ![Len(Vars!Acts)] =
                      [Vars!Acts[Len(Vars!Acts)] EXCEPT !.blocks = s]]
  BY <1>1, <1>4, BlocksSet
<1>6. Vars!Acts # <<>> /\ Vars!Acts[Len(Vars!Acts)].blocks = Vars!Running.blocks
  BY <1>1, TopAct
<1>7. Vars!GlobalValues' = Vars!GlobalValues /\ Vars!StaticValues' = Vars!StaticValues
  BY <1>1, GlobalsStay, StaticsStay
<1> QED
  BY <1>1, <1>5, <1>6, <1>7, LexNames DEF Vars!Lex!EnterTry, Vars!Lex!Running, Vars!Lex!Update, s

LEMMA LeaveBlockStep ==
  ASSUME VarsInv, VarsInv', Vars!LeaveBlock
  PROVE  Vars!Lex!LeaveBlock
<1> DEFINE s == SubSeq(Vars!Running.blocks, 1, Len(Vars!Running.blocks) - 1)
<1>1. /\ calls # <<>> /\ Vars!Update([Vars!Running EXCEPT !.blocks = s])
      /\ UNCHANGED <<decls, var_frames, globals, staticVars, var_func, known, seen>>
  BY DEF Vars!LeaveBlock
<1>2. Vars!Running.blocks \in Seq(Vars!Values) /\ Vars!Running.blocks # <<>>
  BY <1>1, VarsFacts DEF Vars!Activation, Vars!LeaveBlock
<1>3. s \in Seq(Vars!Values)
  BY <1>2
<1> HIDE DEF s
<1>4. SameStack /\ calls'[Len(calls)].blocks = s
  BY <1>1, <1>3, BlocksChange
<1>5. Vars!Acts' = [Vars!Acts EXCEPT ![Len(Vars!Acts)] =
                      [Vars!Acts[Len(Vars!Acts)] EXCEPT !.blocks = s]]
  BY <1>1, <1>4, BlocksSet
<1>6. Vars!Acts # <<>> /\ Vars!Acts[Len(Vars!Acts)].blocks = Vars!Running.blocks
  BY <1>1, TopAct
<1>7. Vars!GlobalValues' = Vars!GlobalValues /\ Vars!StaticValues' = Vars!StaticValues
  BY <1>1, GlobalsStay, StaticsStay
<1> QED
  BY <1>1, <1>2, <1>5, <1>6, <1>7
     DEF Vars!Lex!LeaveBlock, Vars!Lex!Running, Vars!Lex!Update, s

LEMMA ThrowStep ==
  ASSUME VarsInv, VarsInv', NEW c \in Vars!Codes, Vars!Throw(c)
  PROVE  Vars!Lex!Throw(c)
<1> DEFINE A == Vars!Acts
           B == Vars!Running.blocks
<1>1. /\ calls # <<>> /\ Vars!setVar(Vars!ExceptCode, c)
      /\ UNCHANGED <<decls, var_func, known, seen>>
      /\ \A k \in 1 .. Len(calls) : \A b \in 1 .. Len(calls[k].blocks) :
           calls[k].blocks[b] = Vars!Try
      /\ B # <<>> /\ CatchBlocks(c) \in Seq(Vars!Values)
      /\ CatchBlocks(c) = Append(SubSeq(B, 1, Len(B) - 1), c)
      /\ Vars!Update([Vars!Running EXCEPT !.blocks = CatchBlocks(c)])
  BY ThrowIs DEF CatchBlocks
<1>2. /\ staticVars' = staticVars /\ Len(var_frames') = Len(var_frames)
      /\ \A m \in Names : globals'[m] = globals[m]
      /\ \A k \in 1 .. Len(var_frames) :
           /\ var_frames'[k].keys = var_frames[k].keys
           /\ \A m \in Names : var_frames'[k].vars[m] = var_frames[k].vars[m]
  BY <1>1, CodeIsStored
<1>3. SameStack /\ calls'[Len(calls)].blocks = CatchBlocks(c)
  BY <1>1, <1>2, BlocksChange
<1>4. /\ [A[Len(A)] EXCEPT !.blocks = CatchBlocks(c)] \in ActSet
      /\ A' = [A EXCEPT ![Len(A)] = [A[Len(A)] EXCEPT !.blocks = CatchBlocks(c)]]
  BY <1>1, <1>2, <1>3, BlocksSet
<1>5. /\ A \in Seq(ActSet) /\ A # <<>> /\ A[Len(A)].blocks = B /\ Len(A) = Len(calls)
      /\ Len(calls) \in 1 .. Len(calls) /\ Vars!Running = calls[Len(calls)]
  BY <1>1, TopAct, VarsFacts
<1>6. A' = Append(SubSeq(A, 1, Len(A) - 1),
                  [A[Len(A)] EXCEPT !.blocks = Append(SubSeq(@, 1, Len(B) - 1), c)])
  <2> DEFINE b == [A[Len(A)] EXCEPT !.blocks = CatchBlocks(c)]
  <2>1. b = [A[Len(A)] EXCEPT !.blocks = Append(SubSeq(@, 1, Len(B) - 1), c)]
    BY <1>1, <1>5
  <2>2. b \in ActSet /\ A' = [A EXCEPT ![Len(A)] = b]
    BY <1>4
  <2> HIDE DEF b
  <2>3. A' = Append(SubSeq(A, 1, Len(A) - 1), b)
    BY <1>5, <2>2, LastReplaced
  <2> QED
    BY <2>1, <2>3
<1>7. /\ Len(B) \in DOMAIN A[Len(A)].blocks /\ A[Len(A)].blocks[Len(B)] = Vars!Try
      /\ Len(A) \in DOMAIN A
      /\ \A j \in Len(A) + 1 .. Len(A) : FALSE
      /\ \A j \in Len(B) + 1 .. Len(A[Len(A)].blocks) : FALSE
  <2>1. B \in Seq(Vars!Values)
    BY <1>1, VarsFacts DEF Vars!Activation
  <2>2. Len(B) \in 1 .. Len(B)
    BY <1>1, <2>1
  <2> QED
    BY <1>1, <1>5, <2>1, <2>2
<1>8. Vars!GlobalValues' = Vars!GlobalValues /\ Vars!StaticValues' = Vars!StaticValues
  BY <1>2, GlobalsStay, StaticsStay
<1> HIDE DEF B
<1> QED
  BY <1>1, <1>6, <1>7, <1>8, LexNames DEF Vars!Lex!Throw

\* An activation that is the same after the step, with its frame.
LEMMA ActKept ==
  ASSUME VarsInv, VarsInv', NEW k \in 1 .. Len(calls), k \in 1 .. Len(calls'),
         calls'[k] = calls[k],
         calls[k].base # 0 => var_frames'[calls[k].base] = var_frames[calls[k].base]
  PROVE  Vars!Acts'[k] = Vars!Acts[k]
<1>1. /\ Vars!Acts[k] \in ActSet /\ Vars!Acts'[k] \in ActSet
      /\ Vars!Acts'[k].func = Vars!Acts[k].func /\ Vars!Acts'[k].blocks = Vars!Acts[k].blocks
  BY ActsAre, FitNext DEF ActsFit
<1>2. ASSUME NEW n \in Names
      PROVE  /\ Vars!Acts'[k].vars[n] = Vars!Acts[k].vars[n]
             /\ n \in Vars!Acts'[k].own <=> n \in Vars!Acts[k].own
  <2>1. LET fr == var_frames[calls[k].base] IN
        /\ Vars!Acts[k].vars[n] = IF calls[k].base = 0 THEN Absent ELSE fr.vars[n]
        /\ n \in Vars!Acts[k].own <=> calls[k].base # 0 /\ fr.keys[n] # Vars!NoKey
    BY ActsAre DEF ActsFit
  <2>2. LET fr == var_frames'[calls[k].base] IN
        /\ Vars!Acts'[k].vars[n] = IF calls[k].base = 0 THEN Absent ELSE fr.vars[n]
        /\ n \in Vars!Acts'[k].own <=> calls[k].base # 0 /\ fr.keys[n] # Vars!NoKey
    BY FitNext DEF ActsFit
  <2> QED
    BY <2>1, <2>2
<1> QED
  BY <1>1, <1>2, SameAct

\* An activation that begins, whose frame is empty.
LEMMA BegunIs ==
  ASSUME NEW f \in Vars!Bodies
  PROVE  LET a == Vars!Lex!Begun(f) IN
         /\ a \in ActSet /\ a.func = f /\ a.blocks = <<>> /\ a.own = {}
         /\ \A n \in Names : a.vars[n] = Absent
<1>1. <<>> \in Seq(Vars!Values) /\ {} \in SUBSET Names
  OBVIOUS
<1>2. [n \in Names |-> Absent] \in [Names -> Vars!Values \cup {Absent}]
  OBVIOUS
<1> QED
  BY <1>1, <1>2 DEF Vars!Lex!Begun, ActSet

LEMMA Begins ==
  ASSUME VarsInv', NEW k \in 1 .. Len(calls'), NEW f \in Vars!Bodies,
         calls'[k].func = f, calls'[k].blocks = <<>>,
         calls'[k].base # 0 => var_frames'[calls'[k].base] = Vars!EmptyFrame
  PROVE  Vars!Acts'[k] = Vars!Lex!Begun(f)
<1> DEFINE a == Vars!Lex!Begun(f)
<1>1. /\ a \in ActSet /\ a.func = f /\ a.blocks = <<>> /\ a.own = {}
      /\ \A n \in Names : a.vars[n] = Absent
  BY BegunIs
<1> HIDE DEF a
<1>2. /\ Vars!Acts'[k] \in ActSet
      /\ Vars!Acts'[k].func = f /\ Vars!Acts'[k].blocks = <<>>
  BY FitNext DEF ActsFit
<1>3. ASSUME NEW n \in Names
      PROVE  Vars!Acts'[k].vars[n] = a.vars[n] /\ (n \in Vars!Acts'[k].own <=> n \in a.own)
  <2>1. LET fr == var_frames'[calls'[k].base] IN
        /\ Vars!Acts'[k].vars[n] = IF calls'[k].base = 0 THEN Absent ELSE fr.vars[n]
        /\ n \in Vars!Acts'[k].own <=> calls'[k].base # 0 /\ fr.keys[n] # Vars!NoKey
    BY FitNext DEF ActsFit
  <2>2. Vars!EmptyFrame.vars[n] = Absent /\ Vars!EmptyFrame.keys[n] = Vars!NoKey
    BY EmptyFrameIs, BasicNames
  <2> QED
    BY <1>1, <2>1, <2>2
<1>4. Vars!Acts'[k] = a
  BY <1>1, <1>2, <1>3, SameAct
<1> QED
  BY <1>4 DEF a

LEMMA CallStep ==
  ASSUME VarsInv, VarsInv', NEW f \in Funcs, Vars!Call(f)
  PROVE  Vars!Lex!Call(f)
<1> DEFINE L == Len(calls)
           F == Len(var_frames)
           b == Vars!Begin(f, F + 1)
           A == Vars!Acts
<1>1. /\ calls # <<>> /\ var_frames' = Append(var_frames, Vars!EmptyFrame)
      /\ calls' = Append(calls, b) /\ var_func' = f
      /\ UNCHANGED <<decls, globals, staticVars, known, seen>>
  BY DEF Vars!Call
<1>2. /\ L \in Nat \ {0} /\ F \in Nat /\ calls \in Seq(Vars!Activation)
      /\ var_frames \in Seq(Vars!Frame) /\ F + 1 \in Nat
      /\ \A k \in 1 .. L : calls[k].base \in 0 .. F
  BY <1>1, VarsFacts
<1>3. f \in Vars!Bodies
  BY DEF Vars!Bodies
<1>4. b \in Vars!Activation /\ b.func = f /\ b.base = F + 1 /\ b.blocks = <<>>
  BY <1>2, <1>3, BeginIs
<1> HIDE DEF b
<1>5. /\ Len(calls') = L + 1 /\ calls'[L + 1] = b
      /\ \A k \in 1 .. L : calls'[k] = calls[k]
  BY <1>1, <1>2, <1>4, PushStack
<1>6. /\ var_frames'[F + 1] = Vars!EmptyFrame
      /\ \A k \in 1 .. F : var_frames'[k] = var_frames[k]
  BY <1>1, <1>2, EmptyFrameIs, PushStack
<1>7. /\ A \in Seq(ActSet) /\ A' \in Seq(ActSet) /\ Len(A) = L /\ Len(A') = L + 1 /\ A # <<>>
  BY <1>1, <1>5, TopAct, FitNext DEF ActsFit
<1>8. ASSUME NEW k \in 1 .. Len(A)
      PROVE  A'[k] = A[k]
  <2>1. /\ k \in 1 .. L /\ k \in 1 .. Len(calls') /\ calls'[k] = calls[k]
        /\ calls[k].base \in 0 .. F
    BY <1>2, <1>5, <1>7
  <2>2. calls[k].base # 0 => var_frames'[calls[k].base] = var_frames[calls[k].base]
    BY <1>2, <1>6, <2>1
  <2> QED
    BY <2>1, <2>2, ActKept
<1>9. A'[L + 1] = Vars!Lex!Begun(f)
  <2>1. L + 1 \in 1 .. Len(calls') /\ calls'[L + 1].func = f /\ calls'[L + 1].blocks = <<>>
        /\ var_frames'[calls'[L + 1].base] = Vars!EmptyFrame
    BY <1>2, <1>4, <1>5, <1>6
  <2> QED
    BY <1>3, <2>1, Begins
<1>10. A' = Append(A, Vars!Lex!Begun(f))
  <2>1. A' = Append(A, A'[Len(A')])
    BY <1>7, <1>8, LongerIs
  <2> QED
    BY <1>7, <1>9, <2>1
<1>11. Vars!GlobalValues' = Vars!GlobalValues /\ Vars!StaticValues' = Vars!StaticValues
  BY <1>1, GlobalsStay, StaticsStay
<1> QED
  BY <1>1, <1>7, <1>10, <1>11 DEF Vars!Lex!Call

LEMMA ReturnStep ==
  ASSUME VarsInv, VarsInv', Vars!Return
  PROVE  Vars!Lex!Return
<1> DEFINE L == Len(calls)
           F == Len(var_frames)
           A == Vars!Acts
<1>1. /\ calls # <<>> /\ Vars!Running.func # Vars!TopLevel
      /\ var_frames' = SubSeq(var_frames, 1, F - 1) /\ calls' = SubSeq(calls, 1, L - 1)
      /\ UNCHANGED <<decls, globals, staticVars, known, seen>>
  BY DEF Vars!Return
<1>2. /\ L \in Nat \ {0} /\ F \in Nat \ {0} /\ calls \in Seq(Vars!Activation)
      /\ var_frames \in Seq(Vars!Frame) /\ var_frames # <<>>
      /\ \A k \in 1 .. L - 1 : k \in 1 .. L /\ calls[k].base \in 0 .. F - 1
  <2>1. /\ L \in Nat \ {0} /\ F \in Nat \ {0} /\ calls \in Seq(Vars!Activation)
        /\ var_frames \in Seq(Vars!Frame) /\ var_frames # <<>>
    BY <1>1, VarsFacts
  <2> QED
    BY <1>1, <2>1, VarsFacts
<1>3. Len(calls') = L - 1 /\ \A k \in 1 .. L - 1 : calls'[k] = calls[k]
  BY <1>1, <1>2, PopStack
<1>4. \A k \in 1 .. F - 1 : var_frames'[k] = var_frames[k]
  BY <1>1, <1>2, PopStack
<1>5. /\ A \in Seq(ActSet) /\ A' \in Seq(ActSet) /\ Len(A) = L /\ Len(A') = L - 1 /\ A # <<>>
      /\ A[Len(A)].func = Vars!Running.func
  BY <1>1, <1>3, TopAct, FitNext DEF ActsFit
<1>6. ASSUME NEW k \in 1 .. Len(A) - 1
      PROVE  A'[k] = A[k]
  <2>1. /\ k \in 1 .. L /\ k \in 1 .. Len(calls') /\ calls'[k] = calls[k]
        /\ calls[k].base \in 0 .. F - 1
    BY <1>2, <1>3, <1>5
  <2>2. calls[k].base # 0 => var_frames'[calls[k].base] = var_frames[calls[k].base]
    BY <1>2, <1>4, <2>1
  <2> QED
    BY <2>1, <2>2, ActKept
<1>7. A' = SubSeq(A, 1, Len(A) - 1)
  <2>1. A' \in [1 .. Len(A) - 1 -> ActSet]
    BY <1>5
  <2> QED
    BY <1>5, <1>6, <2>1, PoppedIs
<1>8. Vars!GlobalValues' = Vars!GlobalValues /\ Vars!StaticValues' = Vars!StaticValues
  BY <1>1, GlobalsStay, StaticsStay
<1> QED
  BY <1>1, <1>5, <1>7, <1>8, LexNames DEF Vars!Lex!Return, Vars!Lex!Running

LEMMA StartMainStep ==
  ASSUME VarsInv, VarsInv', Vars!StartMain
  PROVE  Vars!Lex!StartMain
<1> DEFINE A == Vars!Acts
           b == Vars!Begin(Vars!Main, 1)
           m == Vars!Lex!Begun(Vars!Main)
<1>1. /\ Len(calls) = 1 /\ calls # <<>> /\ Vars!Running.func = Vars!TopLevel
      /\ var_frames' = Append(var_frames, Vars!EmptyFrame)
      /\ calls' = <<Vars!Begin(Vars!Main, Len(var_frames) + 1)>>
      /\ UNCHANGED <<decls, globals, staticVars, var_func, known, seen>>
  BY DEF Vars!StartMain
<1>2. Len(var_frames) = 0 /\ var_frames \in Seq(Vars!Frame) /\ calls' = <<b>>
  BY <1>1, VarsFacts
<1>3. Vars!Main \in Vars!Bodies
  BY DEF Vars!Bodies
<1>4. b.func = Vars!Main /\ b.base = 1 /\ b.blocks = <<>>
  BY <1>3, BeginIs
<1> HIDE DEF b
<1>5. Len(calls') = 1 /\ calls'[1] = b /\ var_frames'[1] = Vars!EmptyFrame
  BY <1>1, <1>2, EmptyFrameIs
<1>6. /\ A \in Seq(ActSet) /\ A' \in Seq(ActSet) /\ Len(A) = 1 /\ Len(A') = 1
      /\ A[Len(A)].func = Vars!TopLevel
  BY <1>1, <1>5, TopAct, FitNext DEF ActsFit
<1>7. A'[1] = m /\ m \in ActSet
  BY <1>3, <1>4, <1>5, Begins, BegunIs
<1> HIDE DEF m
<1>8. A' = <<m>>
  BY <1>6, <1>7, SameAs
<1>9. Vars!GlobalValues' = Vars!GlobalValues /\ Vars!StaticValues' = Vars!StaticValues
  BY <1>1, GlobalsStay, StaticsStay
<1> QED
  BY <1>1, <1>6, <1>8, <1>9, LexNames DEF Vars!Lex!StartMain, Vars!Lex!Running, m

LEMMA UnhandledStep ==
  ASSUME VarsInv, VarsInv', Vars!Unhandled
  PROVE  Vars!Lex!Unhandled
<1> DEFINE A == Vars!Acts
<1>1. /\ calls # <<>> /\ calls' = <<>> /\ \A k \in DOMAIN calls : Vars!TryBlocks(k) = {}
      /\ UNCHANGED <<decls, globals, staticVars, var_func, known, seen>>
  BY DEF Vars!Unhandled
<1>2. /\ A \in Seq(ActSet) /\ A' \in Seq(ActSet) /\ Len(A) = Len(calls) /\ Len(A') = 0
      /\ calls \in Seq(Vars!Activation)
  BY <1>1, TopAct, FitNext, VarsFacts DEF ActsFit
<1>3. A' = <<>>
  BY <1>2
<1>4. ASSUME NEW k \in DOMAIN A, NEW b \in DOMAIN A[k].blocks
      PROVE  A[k].blocks[b] # Vars!Try
  <2>1. k \in 1 .. Len(calls) /\ k \in DOMAIN calls
    BY <1>2
  <2>2. A[k].blocks = calls[k].blocks
    BY <2>1, ActsAre DEF ActsFit
  <2> QED
    BY <1>1, <1>4, <2>1, <2>2 DEF Vars!TryBlocks
<1>5. Vars!GlobalValues' = Vars!GlobalValues /\ Vars!StaticValues' = Vars!StaticValues
  BY <1>1, GlobalsStay, StaticsStay
<1> QED
  BY <1>1, <1>3, <1>4, <1>5, LexNames DEF Vars!Lex!Unhandled

LEMMA ReadCodeStep ==
  ASSUME VarsInv, VarsInv', Vars!ReadCode
  PROVE  Vars!Lex!ReadCode
<1> DEFINE B == Vars!Running.blocks
           C == {b \in 1 .. Len(B) : B[b] # Vars!Try}
<1>1. /\ calls # <<>> /\ Vars!Catching /\ seen' = Vars!getVar(Vars!ExceptCode)
      /\ UNCHANGED <<decls, var_frames, globals, staticVars, var_func, calls, known>>
  BY DEF Vars!ReadCode
<1>2. B \in Seq(Vars!Values) /\ Len(B) \in Nat /\ DOMAIN B = 1 .. Len(B)
  BY <1>1, VarsFacts DEF Vars!Activation
<1>3. C # {} /\ C \subseteq 1 .. Len(B)
  BY <1>1, <1>2 DEF Vars!Catching
<1>4. PICK b \in C : \A k \in C : k <= b
  <2> HIDE DEF C
  <2> QED
    BY <1>2, <1>3, GreatestExists
<1>5. B[b] # Vars!Try /\ b \in DOMAIN B /\ \A i \in b + 1 .. Len(B) : B[i] = Vars!Try
  BY <1>2, <1>4
<1>6. seen' = B[b]
  <2>1. /\ Len(calls) \in 1 .. Len(calls) /\ calls[Len(calls)].blocks = B
    BY <1>1, VarsFacts
  <2>2. B[b] \in HeldCodes
    BY <1>1, <1>2, <1>5, <2>1, VarsFacts DEF CodesSeen
  <2> QED
    BY <1>1, <2>2, CodeIsRead
<1>7. /\ Vars!Acts' = Vars!Acts /\ Vars!StaticValues' = Vars!StaticValues
      /\ Vars!GlobalValues' = Vars!GlobalValues
  BY <1>1, StaticsStay DEF Vars!Acts, Vars!ActOf, Vars!GlobalValues
<1>8. Vars!Acts # <<>> /\ Vars!Acts[Len(Vars!Acts)].blocks = B
  BY <1>1, TopAct
<1> HIDE DEF B
<1> QED
  BY <1>1, <1>5, <1>6, <1>7, <1>8, LexNames DEF Vars!Lex!ReadCode, Vars!Lex!Running

LEMMA LexStep ==
  ASSUME VarsInv, VarsInv', [Vars!Next]_Vars!vars
  PROVE  [Vars!Lex!Next]_Vars!Lex!lexVars
<1>1. CASE \E n \in Names, v \in Vars!Values :
             Vars!Declare(n, v) \/ Vars!DeclareStatic(n, v) \/ Vars!Assign(n, v)
  BY <1>1, DeclareStep, DeclareStaticStep, AssignStep, LexNames DEF Vars!Lex!Next
<1>2. CASE \E n \in Names : Vars!Read(n)
  BY <1>2, ReadStep DEF Vars!Lex!Next
<1>3. CASE \E f \in Funcs : Vars!Call(f)
  BY <1>3, CallStep DEF Vars!Lex!Next
<1>4. CASE \E c \in Vars!Codes : Vars!Throw(c)
  BY <1>4, ThrowStep, LexNames DEF Vars!Lex!Next
<1>5. CASE \/ Vars!Return \/ Vars!StartMain \/ Vars!EnterTry \/ Vars!LeaveBlock
           \/ Vars!Unhandled \/ Vars!ReadCode
  BY <1>5, ReturnStep, StartMainStep, EnterTryStep, LeaveBlockStep, UnhandledStep, ReadCodeStep
     DEF Vars!Lex!Next
<1>6. CASE Vars!Ended \/ UNCHANGED Vars!vars
  <2>1. UNCHANGED <<decls, var_frames, globals, staticVars, calls, seen>>
    BY <1>6 DEF Vars!Ended, Vars!vars
  <2>2. /\ Vars!Acts' = Vars!Acts /\ Vars!StaticValues' = Vars!StaticValues
        /\ Vars!GlobalValues' = Vars!GlobalValues
    BY <2>1, StaticsStay DEF Vars!Acts, Vars!ActOf, Vars!GlobalValues
  <2> QED
    BY <2>1, <2>2 DEF Vars!Lex!lexVars
<1> QED
  BY <1>1, <1>2, <1>3, <1>4, <1>5, <1>6 DEF Vars!Next

LEMMA LexInit ==
  ASSUME VarsInv, Vars!Init
  PROVE  Vars!Lex!Init
<1> DEFINE t == Vars!Begin(Vars!TopLevel, 0)
           a == Vars!Lex!Begun(Vars!TopLevel)
           A == Vars!Acts
<1>1. /\ globals = [n \in Vars!Stored |-> Absent] /\ staticVars = [k \in Vars!Keys |-> Absent]
      /\ calls = <<t>> /\ seen = 0 /\ decls \in Vars!Declarations
  BY DEF Vars!Init, VarsInv, Tame
<1>2. Vars!TopLevel \in Vars!Bodies
  BY DEF Vars!Bodies
<1>3. t.func = Vars!TopLevel /\ t.base = 0 /\ t.blocks = <<>>
  BY <1>2, BeginIs
<1> HIDE DEF t
<1>4. /\ a \in ActSet /\ a.func = Vars!TopLevel /\ a.blocks = <<>> /\ a.own = {}
      /\ \A n \in Names : a.vars[n] = Absent
  BY <1>2, BegunIs
<1> HIDE DEF a
<1>5. /\ Len(calls) = 1 /\ calls[1] = t /\ A \in Seq(ActSet) /\ Len(A) = 1 /\ A[1] \in ActSet
      /\ A[1].func = Vars!TopLevel /\ A[1].blocks = <<>>
  <2>1. Len(calls) = 1 /\ calls[1] = t
    BY <1>1
  <2>0. ActsFit
    BY ActsAre
  <2>2. A \in Seq(ActSet) /\ Len(A) = 1
    BY <2>0, <2>1 DEF ActsFit
  <2>3. A[1] \in ActSet
    BY <2>2
  <2>4. 1 \in 1..Len(calls)
    BY <2>1
  <2>5. A[1].func = calls[1].func /\ A[1].blocks = calls[1].blocks
    BY <2>0, <2>4 DEF ActsFit
  <2> QED
    BY <2>1, <2>2, <2>3, <2>5, <1>3
<1>6. ASSUME NEW n \in Names
      PROVE  A[1].vars[n] = a.vars[n] /\ (n \in A[1].own <=> n \in a.own)
  BY <1>3, <1>4, <1>5, ActsAre DEF ActsFit
<1>7. A[1] = a
  BY <1>4, <1>5, <1>6, SameAct
<1>8. A = <<a>>
  BY <1>4, <1>5, <1>7, SameAs
<1>9. Vars!GlobalValues = [n \in Names |-> Absent]
  BY <1>1, BasicNames DEF Vars!GlobalValues
<1>10. Vars!StaticValues = [f \in Vars!Bodies |-> [n \in Names |-> Absent]]
  <2>1. \A f \in Vars!Bodies : \A n \in Names : Vars!StaticOf(f, n) = Absent
    <3>1. ASSUME NEW f \in Vars!Bodies, NEW n \in Names, f # Vars!TopLevel
          PROVE  Vars!StaticOf(f, n) = Absent
      <4>1. <<IF f = Vars!Main THEN Vars!NoName ELSE f, n>> \in Vars!Keys
        BY <3>1 DEF Vars!Keys, Vars!Bodies
      <4> QED
        BY <1>1, <3>1, <4>1 DEF Vars!StaticOf
    <3> QED
      BY <3>1 DEF Vars!StaticOf
  <2> QED
    BY <2>1 DEF Vars!StaticValues
<1> QED
  BY <1>1, <1>8, <1>9, <1>10, LexNames DEF Vars!Lex!Init, Vars!Lex!Start, a

\* A program whose names mean one variable to each body, and whose exceptions are
\* caught in the call that raises them, finds by the run-time search through the
\* frames the variable that its text names, and in a catch clause the code caught.
THEOREM ImplementsLexicalScopeHolds ==
  (\A d \in VarPrograms : Tame(d)) => (Vars!Spec => ImplementsLexicalScope)
<1> SUFFICES ASSUME \A d \in VarPrograms : Tame(d)
             PROVE  Vars!Spec => ImplementsLexicalScope
  OBVIOUS
<1>1. Vars!Init => VarsInv
  BY InitVars
<1>2. VarsInv /\ [Vars!Next]_Vars!vars => VarsInv'
  BY StepKeepsVars
<1>3. VarsInv => Vars!TypeOK
  BY DEF VarsInv
<1>4. VarsInv /\ Vars!Init => Vars!Lex!Init
  BY LexInit
<1>5. VarsInv /\ VarsInv' /\ [Vars!Next]_Vars!vars => [Vars!Lex!Next]_Vars!Lex!lexVars
  BY LexStep
<1> QED
  BY <1>1, <1>2, <1>3, <1>4, <1>5, PTL
     DEF Vars!Spec, ImplementsLexicalScope, Vars!ImplementsLexicalScope, Vars!Lex!Spec

-----------------------------------------------------------------------------
(* The layout of classes.                                                  *)

\* Pieces, and what is known of them: they lie between the end of the base and
\* the end of the class so far; in a run of bit-fields only unions lie behind
\* the last one; and the pass that places unions has come as far as the other
\* while there are plain fields only.
Pieces == [kind : {"plain", "bits", "union"}, lo : Nat, hi : Nat]
Bases == [fields : Seq(Pieces), size : Nat]
LayoutTyped ==
  /\ fields \in Seq(Pieces)
  /\ off \in Nat /\ tmp \in Nat /\ word \in Nat /\ bit \in 0 .. 64 /\ start \in Nat
  /\ run \in BOOLEAN
  /\ ancestors \in Seq(Bases)
Between == \A i \in DOMAIN fields : 8 * start <= fields[i].lo /\ fields[i].hi <= 8 * off
RunIsLast ==
  run => /\ start <= word /\ word + 8 <= off
         /\ \A i \in DOMAIN fields :
              fields[i].kind # "union" => fields[i].hi <= 8 * word + bit
PassesTogether == (\A i \in DOMAIN fields : fields[i].kind = "plain") => tmp = off
AncestorsBefore ==
  \A k \in DOMAIN ancestors : \A i \in DOMAIN ancestors[k].fields :
    ancestors[k].fields[i].hi <= 8 * start
LayoutInv ==
  /\ LayoutTyped
  /\ start <= off /\ start <= tmp
  /\ Between /\ RunIsLast /\ PassesTogether /\ AncestorsBefore
  /\ Layout!PlacedApart

\* Aligning never goes back.
LEMMA AlignUpGrows ==
  ASSUME NEW x \in Nat, NEW size \in Nat \ {0}
  PROVE  Layout!AlignUp(x, size) \in Nat /\ Layout!AlignUp(x, size) >= x
<1> DEFINE a == IF size > 8 THEN 8 ELSE size
           m == a - 1
           y == x + a - 1
<1>1. m \in 0 .. 7 /\ y \in Nat /\ y = x + m
  OBVIOUS
<1>2. ASSUME NEW k \in {1, 2, 4}
      PROVE  Layout!Shared(y, m, k) \in Nat
             /\ Layout!Shared(y, m, k) <= IF (m \div k) % 2 = 1 THEN k ELSE 0
  BY DEF Layout!Shared, Layout!BitOf
<1>3. (IF (m \div 1) % 2 = 1 THEN 1 ELSE 0) + (IF (m \div 2) % 2 = 1 THEN 2 ELSE 0)
        + (IF (m \div 4) % 2 = 1 THEN 4 ELSE 0) = m
  <2> HIDE DEF m
  <2> QED
    BY <1>1
<1>4. Layout!AlignUp(x, size)
        = y - (Layout!Shared(y, m, 1) + Layout!Shared(y, m, 2) + Layout!Shared(y, m, 4))
  BY DEF Layout!AlignUp, Layout!Clear
<1> HIDE DEF m, y
<1>5. /\ Layout!Shared(y, m, 1) \in Nat /\ Layout!Shared(y, m, 2) \in Nat
      /\ Layout!Shared(y, m, 4) \in Nat
      /\ Layout!Shared(y, m, 1) + Layout!Shared(y, m, 2) + Layout!Shared(y, m, 4) <= m
  BY <1>1, <1>2, <1>3
<1> QED
  BY <1>1, <1>4, <1>5

\* What the invariant says of the pieces there are.
LEMMA PiecesAre ==
  ASSUME LayoutInv
  PROVE  /\ off \in Nat /\ tmp \in Nat /\ word \in Nat /\ bit \in 0 .. 64 /\ start \in Nat
         /\ start <= off /\ start <= tmp
         /\ \A i \in DOMAIN fields :
              fields[i].hi \in Nat /\ fields[i].lo \in Nat /\ fields[i].hi <= 8 * off
<1>1. /\ off \in Nat /\ tmp \in Nat /\ word \in Nat /\ bit \in 0 .. 64 /\ start \in Nat
      /\ start <= off /\ start <= tmp
      /\ fields \in Seq(Pieces)
      /\ \A i \in DOMAIN fields : fields[i].hi <= 8 * off
  BY DEF LayoutInv, LayoutTyped, Between
<1>2. ASSUME NEW i \in DOMAIN fields
      PROVE  fields[i].hi \in Nat /\ fields[i].lo \in Nat
  <2>1. fields[i] \in Pieces
    BY <1>1
  <2> QED
    BY <2>1 DEF Pieces
<1> QED
  BY <1>1, <1>2

\* What is to be shown of a new piece.
LEMMA PieceAdded ==
  ASSUME LayoutInv, NEW p \in Pieces, fields' = Append(fields, p),
         start' = start, ancestors' = ancestors, off' \in Nat, off <= off',
         8 * start <= p.lo, p.hi <= 8 * off',
         \A i \in DOMAIN fields :
           \/ p.kind = "plain"
           \/ p.kind = "bits" /\ fields[i].kind # "union"
           \/ p.kind = "union" /\ \A k \in DOMAIN fields : fields[k].kind = "plain"
           => fields[i].hi <= p.lo
  PROVE  /\ fields' \in Seq(Pieces) /\ Between' /\ AncestorsBefore' /\ Layout!PlacedApart'
         /\ start' <= off'
         /\ DOMAIN fields' = 1 .. Len(fields) + 1 /\ fields'[Len(fields) + 1] = p
         /\ \A i \in DOMAIN fields : fields'[i] = fields[i]
<1> DEFINE n == Len(fields)
<1>1. /\ fields \in Seq(Pieces) /\ n \in Nat /\ DOMAIN fields = 1 .. n
      /\ off \in Nat /\ start \in Nat /\ start <= off
      /\ \A i \in 1 .. n : fields[i] \in Pieces /\ fields[i].hi \in Nat /\ fields[i].lo \in Nat
  BY PiecesAre DEF LayoutInv, LayoutTyped
<1>2. /\ fields' \in Seq(Pieces) /\ DOMAIN fields' = 1 .. n + 1 /\ fields'[n + 1] = p
      /\ \A i \in 1 .. n : fields'[i] = fields[i]
  BY <1>1
<1>3. \A i \in 1 .. n + 1 : i = n + 1 \/ i \in 1 .. n
  BY <1>1
<1>4. p.hi \in Nat /\ p.lo \in Nat
  BY DEF Pieces
<1> HIDE DEF n
<1>5. Between'
  <2>1. ASSUME NEW i \in 1 .. n + 1
        PROVE  8 * start <= fields'[i].lo /\ fields'[i].hi <= 8 * off'
    <3>1. CASE i = n + 1
      BY <1>2, <3>1
    <3>2. CASE i \in 1 .. n
      <4>1. 8 * start <= fields[i].lo /\ fields[i].hi <= 8 * off
        BY <1>1, <3>2 DEF LayoutInv, Between
      <4> QED
        BY <1>1, <1>2, <3>2, <4>1
    <3> QED
      BY <1>3, <3>1, <3>2
  <2> QED
    BY <1>2, <2>1 DEF Between
<1>6. AncestorsBefore'
  BY DEF LayoutInv, AncestorsBefore
<1>7. Layout!PlacedApart'
  <2> SUFFICES ASSUME NEW i \in 1 .. n + 1, NEW j \in 1 .. n + 1, i < j,
                      \/ fields'[j].kind = "plain"
                      \/ fields'[j].kind = "bits" /\ fields'[i].kind # "union"
                      \/ /\ fields'[j].kind = "union"
                         /\ \A k \in 1 .. j - 1 : fields'[k].kind = "plain"
               PROVE  Layout!Apart(fields'[i], fields'[j])
    BY <1>2 DEF Layout!PlacedApart
  <2>1. i \in 1 .. n
    BY <1>1
  <2>2. CASE j \in 1 .. n
    <3>1. \A k \in 1 .. j - 1 : k \in 1 .. n
      BY <2>2, <1>1
    <3>2. \/ fields[j].kind = "plain"
          \/ fields[j].kind = "bits" /\ fields[i].kind # "union"
          \/ fields[j].kind = "union" /\ \A k \in 1 .. j - 1 : fields[k].kind = "plain"
      BY <1>2, <2>1, <2>2, <3>1
    <3>3. Layout!Apart(fields[i], fields[j])
      BY <1>1, <2>1, <2>2, <3>2 DEF LayoutInv, Layout!PlacedApart
    <3> QED
      BY <1>2, <2>1, <2>2, <3>3
  <2>3. CASE j = n + 1
    <3>1. fields'[j] = p /\ fields'[i] = fields[i]
      BY <1>2, <2>1, <2>3
    <3>2. \A k \in 1 .. n : k \in 1 .. j - 1
      BY <1>1, <2>3
    <3>3. \/ p.kind = "plain"
          \/ p.kind = "bits" /\ fields[i].kind # "union"
          \/ p.kind = "union" /\ \A k \in 1 .. n : fields[k].kind = "plain"
      BY <1>2, <3>1, <3>2
    <3>4. fields[i].hi <= p.lo
      BY <1>1, <2>1, <3>3
    <3> QED
      BY <3>1, <3>4 DEF Layout!Apart
  <2> QED
    BY <1>3, <2>2, <2>3
<1> QED
  BY <1>1, <1>2, <1>5, <1>6, <1>7 DEF n

LEMMA AddPlainKeeps ==
  ASSUME LayoutInv, NEW size \in PlainSizes, Layout!AddPlain(size)
  PROVE  LayoutInv'
<1> DEFINE at == Layout!AlignUp(off, size)
           p == Layout!Piece("plain", 8 * at, 8 * (at + size))
<1>1. /\ fields' = Append(fields, p) /\ off' = at + size
      /\ tmp' = Layout!AlignUp(tmp, size) + size
      /\ run' = FALSE /\ bit' = 0 /\ word' = word /\ start' = start /\ ancestors' = ancestors
  BY DEF Layout!AddPlain, Layout!Skip
<1>2. size \in Nat \ {0}
  BY LayoutAssumption
<1>3. at \in Nat /\ at >= off /\ Layout!AlignUp(tmp, size) \in Nat
      /\ Layout!AlignUp(tmp, size) >= tmp
  BY <1>2, AlignUpGrows, PiecesAre
<1>4. p.kind = "plain" /\ p.lo = 8 * at /\ p.hi = 8 * (at + size) /\ p \in Pieces
  <2> HIDE DEF at
  <2> QED
    BY <1>2, <1>3 DEF Layout!Piece, Pieces
<1> HIDE DEF at, p
<1>5. \A i \in DOMAIN fields : fields[i].hi <= p.lo
  BY <1>3, <1>4, PiecesAre
<1>6. /\ fields' \in Seq(Pieces) /\ Between' /\ AncestorsBefore' /\ Layout!PlacedApart'
      /\ start' <= off' /\ DOMAIN fields' = 1 .. Len(fields) + 1
      /\ \A i \in DOMAIN fields : fields'[i] = fields[i]
  <2>1. off' \in Nat /\ off <= off' /\ 8 * start <= p.lo /\ p.hi <= 8 * off'
    BY <1>1, <1>2, <1>3, <1>4, PiecesAre
  <2> QED
    BY <1>1, <1>4, <1>5, <2>1, PieceAdded
<1>7. LayoutTyped'
  <2>1. off' \in Nat /\ tmp' \in Nat /\ word' \in Nat /\ bit' \in 0 .. 64 /\ start' \in Nat
    BY <1>1, <1>2, <1>3, PiecesAre
  <2> QED
    BY <1>1, <1>6, <2>1 DEF LayoutInv, LayoutTyped
<1>8. PassesTogether'
  <2>1. ASSUME \A i \in DOMAIN fields' : fields'[i].kind = "plain"
        PROVE  tmp' = off'
    <3>1. \A i \in DOMAIN fields : i \in DOMAIN fields'
      BY <1>6 DEF LayoutInv, LayoutTyped
    <3>2. tmp = off
      BY <1>6, <2>1, <3>1 DEF LayoutInv, PassesTogether
    <3> QED
      BY <1>1, <3>2 DEF at
  <2> QED
    BY <2>1 DEF PassesTogether
<1> QED
  BY <1>1, <1>2, <1>3, <1>6, <1>7, <1>8, PiecesAre DEF LayoutInv, RunIsLast

LEMMA AddBitsKeeps ==
  ASSUME LayoutInv, NEW b \in BitFields, Layout!AddBits(b[1], b[2])
  PROVE  LayoutInv'
<1> DEFINE size == b[1]
           width == b[2]
           fresh == ~run \/ bit + width > 64
           at == IF fresh THEN Layout!AlignUp(off, 8) ELSE word
           first == IF fresh THEN 0 ELSE bit
           p == Layout!Piece("bits", 8 * at + first, 8 * at + first + width)
<1>1. /\ fields' = Append(fields, p) /\ off' = IF fresh THEN at + 8 ELSE off
      /\ tmp' = Layout!AlignUp(tmp, size) + size
      /\ run' = TRUE /\ bit' = first + width /\ word' = at
      /\ start' = start /\ ancestors' = ancestors
  BY DEF Layout!AddBits, Layout!Skip
<1>2. size \in Nat \ {0} /\ width \in 0 .. 64
  BY LayoutAssumption
<1>3. /\ Layout!AlignUp(off, 8) \in Nat /\ Layout!AlignUp(off, 8) >= off
      /\ Layout!AlignUp(tmp, size) \in Nat /\ Layout!AlignUp(tmp, size) >= tmp
  BY <1>2, AlignUpGrows, PiecesAre
<1> HIDE DEF size, width
<1>4. /\ at \in Nat /\ first \in 0 .. 64 /\ first + width \in 0 .. 64
      /\ off' \in Nat /\ off <= off' /\ at + 8 <= off' /\ start <= at
      /\ \A i \in DOMAIN fields : fields[i].kind # "union" => fields[i].hi <= 8 * at + first
  <2>1. CASE fresh
    <3>1. at = Layout!AlignUp(off, 8) /\ first = 0
      BY <2>1
    <3> HIDE DEF at, first
    <3> QED
      BY <1>1, <1>2, <1>3, <2>1, <3>1, PiecesAre
  <2>2. CASE ~ fresh
    <3>1. at = word /\ first = bit /\ run = TRUE /\ bit + width <= 64
      BY <1>2, <2>2, PiecesAre DEF LayoutInv, LayoutTyped
    <3>2. /\ start <= word /\ word + 8 <= off
          /\ \A i \in DOMAIN fields : fields[i].kind # "union" => fields[i].hi <= 8 * word + bit
      BY <3>1 DEF LayoutInv, RunIsLast
    <3>3. off' = off
      BY <1>1, <2>2
    <3> HIDE DEF at, first, fresh
    <3> QED
      BY <1>2, <3>1, <3>2, <3>3, PiecesAre
  <2> QED
    BY <2>1, <2>2
<1> HIDE DEF at, first, fresh
<1>5. /\ p.kind = "bits" /\ p.lo = 8 * at + first /\ p.hi = 8 * at + first + width
      /\ p \in Pieces
  BY <1>2, <1>4 DEF Layout!Piece, Pieces
<1> HIDE DEF p
<1>6. /\ fields' \in Seq(Pieces) /\ Between' /\ AncestorsBefore' /\ Layout!PlacedApart'
      /\ start' <= off' /\ DOMAIN fields' = 1 .. Len(fields) + 1 /\ fields'[Len(fields) + 1] = p
      /\ \A i \in DOMAIN fields : fields'[i] = fields[i]
  <2>1. 8 * start <= p.lo /\ p.hi <= 8 * off'
    BY <1>2, <1>4, <1>5, PiecesAre
  <2>2. \A i \in DOMAIN fields : fields[i].kind # "union" => fields[i].hi <= p.lo
    BY <1>4, <1>5
  <2> QED
    BY <1>1, <1>4, <1>5, <2>1, <2>2, PieceAdded
<1>7. LayoutTyped'
  BY <1>1, <1>2, <1>3, <1>4, <1>6, PiecesAre DEF LayoutInv, LayoutTyped
<1>8. Len(fields) \in Nat /\ DOMAIN fields = 1 .. Len(fields)
  BY DEF LayoutInv, LayoutTyped
<1>9. PassesTogether'
  <2>1. Len(fields) + 1 \in DOMAIN fields'
    BY <1>6, <1>8
  <2> QED
    BY <1>5, <1>6, <2>1 DEF PassesTogether
<1>10. RunIsLast'
  <2>1. ASSUME NEW i \in DOMAIN fields', fields'[i].kind # "union"
        PROVE  fields'[i].hi <= 8 * at + (first + width)
    <3>1. CASE i = Len(fields) + 1
      BY <1>2, <1>4, <1>5, <1>6, <3>1
    <3>2. CASE i # Len(fields) + 1
      <4>1. i \in DOMAIN fields
        BY <1>6, <1>8, <3>2
      <4>2. fields[i].hi <= 8 * at + first
        BY <1>4, <1>6, <2>1, <4>1
      <4> QED
        BY <1>2, <1>4, <1>6, <4>1, <4>2, PiecesAre
    <3> QED
      BY <3>1, <3>2
  <2> QED
    BY <1>1, <1>4, <2>1 DEF RunIsLast
<1> QED
  BY <1>1, <1>2, <1>3, <1>6, <1>7, <1>9, <1>10, PiecesAre DEF LayoutInv

\* The greatest member of a union.
LEMMA LongestIs ==
  ASSUME NEW sizes \in Seq(Nat \ {0}), sizes # <<>>
  PROVE  Layout!Longest(sizes) \in Nat
<1> DEFINE S == {sizes[i] : i \in DOMAIN sizes}
           n == Len(sizes)
           Below(i, k) == \A j \in 1 .. k : sizes[j] <= sizes[i]
           T == {k \in 1 .. n : \E i \in 1 .. k : Below(i, k)}
<1>1. n \in Nat \ {0} /\ DOMAIN sizes = 1 .. n /\ \A i \in 1 .. n : sizes[i] \in Nat
  OBVIOUS
<1>2. 1 \in T
  BY <1>1
<1>3. ASSUME NEW k \in 1 .. n - 1, k \in T
      PROVE  k + 1 \in T
  <2>1. PICK i \in 1 .. k : Below(i, k)
    BY <1>3
  <2>2. \A j \in 1 .. k + 1 : j = k + 1 \/ j \in 1 .. k
    OBVIOUS
  <2>3. k + 1 \in 1 .. k + 1 /\ i \in 1 .. k + 1 /\ k + 1 \in 1 .. n /\ i \in 1 .. n
    BY <1>1
  <2>4. sizes[k + 1] \in Nat /\ sizes[i] \in Nat /\ \A j \in 1 .. k : sizes[j] \in Nat
    BY <1>1, <2>3
  <2>5. sizes[k + 1] <= sizes[i] => Below(i, k + 1)
    BY <2>1, <2>2
  <2>6. sizes[i] <= sizes[k + 1] => Below(k + 1, k + 1)
    BY <2>1, <2>2, <2>4
  <2> HIDE DEF Below
  <2>7. Below(i, k + 1) \/ Below(k + 1, k + 1)
    BY <2>4, <2>5, <2>6
  <2> QED
    BY <2>3, <2>7
<1>4. n \in T
  <2> HIDE DEF T
  <2>1. 1 \in Nat /\ n \in 1 .. n
    BY <1>1
  <2> QED
    BY <1>1, <1>2, <1>3, <2>1, IntervalInduction
<1>5. PICK i \in 1 .. n : \A j \in 1 .. n : sizes[j] <= sizes[i]
  BY <1>1, <1>4
<1>6. \E x \in S : \A y \in S : x >= y
  BY <1>1, <1>5
<1>7. Layout!Longest(sizes) = CHOOSE x \in S : \A y \in S : x >= y
  BY DEF Layout!Longest, Layout!Max
<1>8. S \subseteq Nat
  BY <1>1
<1> HIDE DEF S
<1> QED
  BY <1>6, <1>7, <1>8

LEMMA AddUnionKeeps ==
  ASSUME LayoutInv, NEW sizes \in UnionSizes, Layout!AddUnion(sizes)
  PROVE  LayoutInv'
<1> DEFINE at == Layout!AlignUp(tmp, sizes[1])
           end == at + Layout!Longest(sizes)
           p == Layout!Piece("union", 8 * at, 8 * end)
<1>1. /\ fields' = Append(fields, p) /\ off' = Layout!Max({off, end})
      /\ UNCHANGED <<tmp, word, bit, run, start, ancestors>>
  BY DEF Layout!AddUnion
<1>2. sizes[1] \in Nat \ {0} /\ Layout!Longest(sizes) \in Nat
  BY LayoutAssumption, LongestIs
<1>3. at \in Nat /\ at >= tmp /\ end \in Nat
  BY <1>2, AlignUpGrows, PiecesAre
<1> HIDE DEF at, end
<1>4. off' = (IF off >= end THEN off ELSE end)
  BY <1>1, <1>3, PiecesAre DEF Layout!Max
<1>5. off' \in Nat /\ off <= off' /\ end <= off'
  BY <1>3, <1>4, PiecesAre
<1>6. p.kind = "union" /\ p.lo = 8 * at /\ p.hi = 8 * end /\ p \in Pieces
  BY <1>3 DEF Layout!Piece, Pieces
<1> HIDE DEF p
<1>7. /\ fields' \in Seq(Pieces) /\ Between' /\ AncestorsBefore' /\ Layout!PlacedApart'
      /\ start' <= off' /\ DOMAIN fields' = 1 .. Len(fields) + 1 /\ fields'[Len(fields) + 1] = p
      /\ \A i \in DOMAIN fields : fields'[i] = fields[i]
  <2>1. 8 * start <= p.lo /\ p.hi <= 8 * off'
    <3>1. p.lo = 8 * at /\ p.hi = 8 * end /\ start \in Nat /\ start <= tmp /\ tmp \in Nat
      BY <1>6, PiecesAre
    <3>2. 8 * start <= 8 * at
      BY <1>3, <3>1
    <3>3. 8 * end <= 8 * off'
      <4>1. end \in Nat /\ off' \in Nat /\ end <= off'
        BY <1>3, <1>5
      <4>2. \A m, n \in Nat : m <= n => 8 * m <= 8 * n
        OBVIOUS
      <4> QED
        BY <4>1, <4>2
    <3> QED
      BY <3>1, <3>2, <3>3
  <2>2. ASSUME \A k \in DOMAIN fields : fields[k].kind = "plain", NEW i \in DOMAIN fields
        PROVE  fields[i].hi <= p.lo
    <3>1. tmp = off
      BY <2>2 DEF LayoutInv, PassesTogether
    <3> QED
      BY <1>3, <1>6, <3>1, PiecesAre
  <2> QED
    BY <1>1, <1>5, <1>6, <2>1, <2>2, PieceAdded
<1>8. LayoutTyped'
  BY <1>1, <1>5, <1>7 DEF LayoutInv, LayoutTyped
<1>9. Len(fields) \in Nat /\ DOMAIN fields = 1 .. Len(fields)
  BY DEF LayoutInv, LayoutTyped
<1>10. PassesTogether'
  <2>1. Len(fields) + 1 \in DOMAIN fields'
    BY <1>7, <1>9
  <2> QED
    BY <1>6, <1>7, <2>1 DEF PassesTogether
<1>11. RunIsLast'
  <2> SUFFICES ASSUME run
               PROVE  /\ start <= word /\ word + 8 <= off'
                      /\ \A i \in DOMAIN fields' :
                           fields'[i].kind # "union" => fields'[i].hi <= 8 * word + bit
    BY <1>1 DEF RunIsLast
  <2>1. /\ start <= word /\ word + 8 <= off
        /\ \A i \in DOMAIN fields : fields[i].kind # "union" => fields[i].hi <= 8 * word + bit
    BY DEF LayoutInv, RunIsLast
  <2>2. ASSUME NEW i \in DOMAIN fields', fields'[i].kind # "union"
        PROVE  i \in DOMAIN fields
    BY <1>6, <1>7, <1>9, <2>2
  <2> QED
    BY <1>5, <1>7, <2>1, <2>2, PiecesAre
<1> QED
  BY <1>1, <1>7, <1>8, <1>10, <1>11, PiecesAre DEF LayoutInv

LEMMA DeriveKeeps ==
  ASSUME LayoutInv, Layout!Derive
  PROVE  LayoutInv'
<1> DEFINE a == [fields |-> fields, size |-> off]
           n == Len(ancestors)
<1>1. /\ ancestors' = Append(ancestors, a) /\ start' = off /\ off' = off /\ tmp' = off
      /\ fields' = <<>> /\ word' = 0 /\ bit' = 0 /\ run' = FALSE
  BY DEF Layout!Derive
<1>2. a \in Bases /\ a.fields = fields
  BY DEF LayoutInv, LayoutTyped, Bases
<1> HIDE DEF a
<1>3. LayoutTyped'
  <2>1. off' \in Nat /\ tmp' \in Nat /\ word' \in Nat /\ bit' \in 0 .. 64 /\ start' \in Nat
    BY <1>1, PiecesAre
  <2>2. ancestors' \in Seq(Bases)
    BY <1>1, <1>2 DEF LayoutInv, LayoutTyped
  <2>3. fields' \in Seq(Pieces)
    BY <1>1
  <2>4. run' \in BOOLEAN
    BY <1>1
  <2> QED
    BY <2>1, <2>2, <2>3, <2>4 DEF LayoutTyped
<1>4. /\ n \in Nat /\ DOMAIN ancestors = 1 .. n /\ DOMAIN ancestors' = 1 .. n + 1
      /\ ancestors'[n + 1] = a /\ \A k \in 1 .. n : ancestors'[k] = ancestors[k]
  BY <1>1, <1>2 DEF LayoutInv, LayoutTyped
<1>5. AncestorsBefore'
  <2>1. ASSUME NEW k \in 1 .. n + 1, NEW i \in DOMAIN ancestors'[k].fields
        PROVE  ancestors'[k].fields[i].hi <= 8 * off
    <3>1. CASE k = n + 1
      BY <1>2, <1>4, <2>1, <3>1, PiecesAre
    <3>2. CASE k # n + 1
      <4>1. k \in 1 .. n
        BY <1>4, <3>2
      <4>2. ancestors[k] \in Bases /\ i \in DOMAIN ancestors[k].fields
        <5>1. ancestors \in Seq(Bases)
          BY DEF LayoutInv, LayoutTyped
        <5> QED
          BY <1>4, <2>1, <4>1, <5>1
      <4>3. ancestors[k].fields[i].hi \in Nat
        <5>1. ancestors[k].fields[i] \in Pieces
          BY <4>2 DEF Bases
        <5> QED
          BY <5>1 DEF Pieces
      <4>4. ancestors[k].fields[i].hi <= 8 * start
        BY <1>4, <4>1, <4>2 DEF LayoutInv, AncestorsBefore
      <4> QED
        BY <1>4, <4>1, <4>3, <4>4, PiecesAre
    <3> QED
      BY <3>1, <3>2
  <2> QED
    BY <1>1, <1>4, <2>1 DEF AncestorsBefore
<1>6. Between' /\ RunIsLast' /\ PassesTogether' /\ Layout!PlacedApart'
  BY <1>1 DEF Between, RunIsLast, PassesTogether, Layout!PlacedApart
<1>7. start' <= off' /\ start' <= tmp'
  BY <1>1, PiecesAre
<1> QED
  BY <1>3, <1>5, <1>6, <1>7 DEF LayoutInv

LEMMA LayoutStep == LayoutInv /\ [Layout!Next]_(Layout!vars) => LayoutInv'
<1> SUFFICES ASSUME LayoutInv, [Layout!Next]_(Layout!vars) PROVE LayoutInv'
  OBVIOUS
<1>1. CASE UNCHANGED Layout!vars
  BY <1>1 DEF Layout!vars, LayoutInv, LayoutTyped, Between, RunIsLast, PassesTogether,
              AncestorsBefore, Layout!PlacedApart
<1>2. CASE Layout!Next
  BY <1>2, AddPlainKeeps, AddBitsKeeps, AddUnionKeeps, DeriveKeeps DEF Layout!Next
<1> QED
  BY <1>1, <1>2

\* Storing eight bytes at a time touches no more than a field of eight or more has.
LEMMA WideTouchesItself ==
  ASSUME NEW p \in Pieces, p.kind # "bits" => p.hi - p.lo >= 64
  PROVE  /\ Layout!InterpreterTouches(p).lo = p.lo
         /\ Layout!InterpreterTouches(p).hi <= p.hi
         /\ Layout!InterpreterTouches(p).hi \in Int
<1>1. p.lo \in Nat /\ p.hi \in Nat
  BY DEF Pieces
<1>2. CASE p.kind = "bits" /\ p.hi - p.lo < 64
  BY <1>1, <1>2 DEF Layout!InterpreterTouches
<1>3. CASE ~ (p.kind = "bits" /\ p.hi - p.lo < 64)
  <2>1. Layout!InterpreterTouches(p) = [p EXCEPT !.hi = p.hi - (p.hi - p.lo) + 64]
    BY <1>3 DEF Layout!InterpreterTouches
  <2>2. /\ Layout!InterpreterTouches(p).lo = p.lo
        /\ Layout!InterpreterTouches(p).hi = p.hi - (p.hi - p.lo) + 64
    BY <2>1 DEF Pieces
  <2>3. p.hi - p.lo >= 64
    BY <1>1, <1>3
  <2> QED
    BY <1>1, <2>2, <2>3
<1> QED
  BY <1>2, <1>3

\* Fields lie in the object, behind those of its base, and apart from each other but
\* for unions that the first pass misplaces; where every field has eight bytes, a store
\* of the interpreter changes no other.
THEOREM FieldsKeepApartHolds == Layout!Spec => []FieldsKeepApart
<1>1. Layout!Init => LayoutInv
  <2> SUFFICES ASSUME Layout!Init PROVE LayoutInv
    OBVIOUS
  <2>1. /\ fields = <<>> /\ off = 0 /\ tmp = 0 /\ word = 0 /\ bit = 0 /\ run = FALSE
        /\ start = 0 /\ ancestors = <<>>
    BY DEF Layout!Init
  <2>2. LayoutTyped
    <3>1. fields \in Seq(Pieces) /\ ancestors \in Seq(Bases)
      BY <2>1
    <3>3. run \in BOOLEAN
      BY <2>1
    <3>2. off \in Nat /\ tmp \in Nat /\ word \in Nat /\ bit \in 0 .. 64 /\ start \in Nat
      BY <2>1
    <3> QED
      BY <3>1, <3>2, <3>3 DEF LayoutTyped
  <2> QED
    BY <2>1, <2>2 DEF LayoutInv, Between, RunIsLast, PassesTogether, AncestorsBefore,
                      Layout!PlacedApart
<1>2. LayoutInv => FieldsKeepApart
  <2> SUFFICES ASSUME LayoutInv PROVE FieldsKeepApart
    OBVIOUS
  <2>1. Layout!PlacedApart
    BY DEF LayoutInv
  <2>2. Layout!WithinObject
    BY DEF LayoutInv, Between, AncestorsBefore, Layout!WithinObject, Layout!Inherited
  <2>3. ASSUME Layout!Wide, NEW i \in DOMAIN fields, NEW j \in DOMAIN fields, i # j,
               Layout!Apart(fields[i], fields[j])
        PROVE  Layout!Apart(Layout!InterpreterTouches(fields[i]), fields[j])
    <3>1. fields[i] \in Pieces /\ fields[j] \in Pieces
      BY DEF LayoutInv, LayoutTyped
    <3>2. fields[i].kind # "bits" => fields[i].hi - fields[i].lo >= 64
      BY <2>3 DEF Layout!Wide
    <3>3. /\ Layout!InterpreterTouches(fields[i]).lo = fields[i].lo
          /\ Layout!InterpreterTouches(fields[i]).hi <= fields[i].hi
          /\ Layout!InterpreterTouches(fields[i]).hi \in Int
      BY <3>1, <3>2, WideTouchesItself
    <3> QED
      BY <2>3, <3>3, PiecesAre DEF Layout!Apart
  <2> QED
    BY <2>1, <2>2, <2>3 DEF FieldsKeepApart, Layout!FieldsKeepApart,
                            Layout!WideStoresOnlyTheirField, Layout!StoresOnlyItsField
<1> QED
  BY <1>1, <1>2, LayoutStep, PTL DEF Layout!Spec
=============================================================================
