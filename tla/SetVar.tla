------------------------------- MODULE SetVar -------------------------------
(***************************************************************************)
(* How a variable of a function block takes a value of another type        *)
(* (fb_setvar.c): the value is converted to the variable's type and shape, *)
(* compared with what the variable holds, and stored only if it differs;   *)
(* a change requests that the block be executed.                           *)
(*                                                                         *)
(* A value is a record of a type, a flag for vectors, one for PVs (values  *)
(* with state and time, together the stamp), the sequence of its elements  *)
(* (of one element if it is no vector, none if it is VOID), and the stamp. *)
(* Integers have two or three bits.  A real number is counted in halves,   *)
(* and a time is a pair of seconds and half seconds; a negative half of a  *)
(* TIME stands for the large unsigned number it is stored as.  A text is a *)
(* tuple that says what it can be read as.  A conversion whose result the  *)
(* C language leaves open yields a set of several results.                 *)
(***************************************************************************)
EXTENDS Integers, Sequences, FiniteSets

CONSTANTS
  Decls,    \* variables: [type, shape, pv, accessor]
  Sources,  \* values that connections and clients write, a sequence
  Width     \* elements of a static vector

VARIABLES
  decl,    \* the variable's declaration, which never changes
  var,     \* what it holds: [val, stamp], and the type and flags if it is ANY
  src,     \* the value written last, and
  result,  \* the result of that
  eexreq   \* a request to execute the block

valueVars == <<decl, var, src, result, eexreq>>

Byte == 0 .. 3
Int3 == -4 .. 3
UInt3 == 0 .. 7
Reals == -6 .. 6
Usecs == -1 .. 1
Types == {"BYTE", "BOOL", "INT", "UINT", "SINGLE", "DOUBLE", "TIME", "TIME_SPAN", "STRING"}
RealTypes == {"SINGLE", "DOUBLE"}
Year == 1970

void == [type |-> "VOID", vec |-> FALSE, pv |-> FALSE, val |-> <<>>, stamp |-> 0]

(* What a text can be read as: nothing, a truth value, some word, a whole  *)
(* or a decimal number, a date or the like.                                *)
Texts ==
  {<<>>, <<"word">>} \cup ({"bool"} \X BOOLEAN) \cup ({"int", "dec"} \X Int)
    \cup ({"clock"} \X UInt3 \X {0, 1})

(* The elements of values of type t.                                       *)
Elements(t) ==
  CASE t = "BYTE" -> Byte
    [] t = "BOOL" -> {0, 1}
    [] t = "INT" -> Int3
    [] t = "UINT" -> UInt3
    [] t \in RealTypes -> Int
    [] t = "TIME" -> UInt3 \X {0, 1}
    [] t = "TIME_SPAN" -> {v \in Int3 \X Usecs : v[1] * v[2] >= 0}
    [] t = "STRING" -> Texts

IsValue(s) ==
  /\ s = [type |-> s.type, vec |-> s.vec, pv |-> s.pv, val |-> s.val, stamp |-> s.stamp]
  /\ s.type \in Types \cup {"VOID"} /\ s.vec \in BOOLEAN /\ s.pv \in BOOLEAN /\ s.stamp \in Nat
  /\ s.type = "VOID" => s = [void EXCEPT !.stamp = s.stamp]
  /\ s.type # "VOID" => s.val \in Seq(Elements(s.type)) /\ (s.vec \/ Len(s.val) = 1)

ASSUME DeclsAssumption ==
  /\ Width \in Nat \ {0, 1}
  /\ Decls \subseteq [type : Types \cup {"ANY"}, shape : {"scalar", "dynvec", "static"},
                     pv : BOOLEAN, accessor : BOOLEAN]
  /\ \A d \in Decls : ~(d.type = "STRING" /\ d.shape = "static")

ASSUME SourcesAssumption == \A i \in DOMAIN Sources : IsValue(Sources[i])

-----------------------------------------------------------------------------
(* Conversion of one element v of type t.                                  *)

Trunc(h) == IF h >= 0 THEN h \div 2 ELSE -((-h) \div 2)

(* What an integer becomes when cast to the type with the values R, and a  *)
(* real number: out of range, anything.                                    *)
Wrap(R, n) == CHOOSE x \in R : (x - n) % Cardinality(R) = 0
Cast(R, h) == IF Trunc(h) \in R THEN {Trunc(h)} ELSE R

(* strtod and atol.                                                        *)
Strtod(text) ==
  CASE text # <<>> /\ text[1] = "int" -> 2 * text[2]
    [] text # <<>> /\ text[1] = "dec" -> text[2]
    [] text # <<>> /\ text[1] = "clock" -> 2 * Year
    [] OTHER -> 0
Atol(text) == Trunc(Strtod(text))

Whole(R, t, v) ==
  CASE t \in RealTypes -> Cast(R, v)
    [] t \in {"TIME", "TIME_SPAN"} -> {Wrap(R, v[1])}
    [] t = "STRING" -> {Wrap(R, Atol(v))}
    [] OTHER -> {Wrap(R, v)}

ToByte(t, v) == Whole(Byte, t, v)
ToInt(t, v) == Whole(Int3, t, v)
ToUint(t, v) == Whole(UInt3, t, v)

IsTrue(t, v) ==
  CASE t \in {"TIME", "TIME_SPAN"} -> v # <<0, 0>>
    [] t = "STRING" -> v = <<"bool", TRUE>> \/ Atol(v) # 0
    [] OTHER -> v # 0
ToBool(t, v) == {IF IsTrue(t, v) THEN 1 ELSE 0}

ToReal(t, v) ==
  {CASE t \in RealTypes -> v
     [] t \in {"TIME", "TIME_SPAN"} -> 2 * v[1] + v[2]
     [] t = "STRING" -> Strtod(v)
     [] OTHER -> 2 * v}

(* A text that is no date yields some time or, if mktime refuses it, zero. *)
Ascii2time(text) ==
  IF text = <<>> THEN {<<0, 0>>}
  ELSE IF text[1] = "clock" THEN {<<text[2], text[3]>>} ELSE UInt3 \X {0, 1}

ToTime(t, v) ==
  CASE t = "TIME" -> {v}
    [] t = "TIME_SPAN" -> {<<Wrap(UInt3, v[1]), v[2]>>}
    [] t \in RealTypes -> {w \in Cast(UInt3, v) \X Usecs :
                           v >= 0 /\ Trunc(v) \in UInt3 => 2 * w[1] + w[2] = v /\ w[2] >= 0}
    [] t = "STRING" -> Ascii2time(v)
    [] OTHER -> {<<Wrap(UInt3, v), 0>>}

Bug_F2ts(text) ==
  LET h == Strtod(text)
      u == IF text # <<>> /\ text[1] = "clock" THEN text[3] ELSE (IF h < 0 THEN -h ELSE h) % 2
  IN <<Wrap(Int3, Trunc(h)), u>>

(* The fraction takes its sign from the whole seconds, if there are any.   *)
F2ts(text) ==
  LET h == Strtod(text)
      u == IF text # <<>> /\ text[1] = "clock" THEN text[3] ELSE (IF h < 0 THEN -h ELSE h) % 2
  IN <<Wrap(Int3, Trunc(h)), IF Trunc(h) < 0 THEN -u ELSE u>>

ToSpan(t, v) ==
  CASE t = "TIME_SPAN" -> {v}
    [] t = "TIME" -> {<<Wrap(Int3, v[1]), v[2]>>}
    [] t \in RealTypes -> IF Trunc(v) \in Int3 THEN {<<Trunc(v), v - 2 * Trunc(v)>>} ELSE Int3 \X Usecs
    [] t = "STRING" -> {F2ts(v)}
    [] OTHER -> {<<Wrap(Int3, v), 0>>}

Time2ascii(v) == <<"clock", v[1], v[2]>>
Timespan2ascii(v) == <<"dec", 2 * v[1] + v[2]>>

ToText(t, v) ==
  {CASE t = "BOOL" -> <<"bool", v # 0>>
     [] t \in RealTypes -> <<"dec", v>>
     [] t = "TIME" -> Time2ascii(v)
     [] t = "TIME_SPAN" -> Timespan2ascii(v)
     [] t = "STRING" -> v
     [] OTHER -> <<"int", v>>}

-----------------------------------------------------------------------------
(* The element sequences of length n whose i-th element is in F(i).        *)
Tuples(n, F(_)) ==
  {seq \in [1 .. n -> UNION {F(i) : i \in 1 .. n}] : \A i \in 1 .. n : seq[i] \in F(i)}

(* A scalar takes the first element, a dynamic vector all, and a static    *)
(* vector as many as it has; what is missing is zero.                      *)
Filled(n, s, zero, Conv(_, _)) ==
  Tuples(n, LAMBDA i : IF i <= Len(s.val) THEN Conv(s.type, s.val[i]) ELSE {zero})

ScalarByte(s) == Filled(1, s, 0, ToByte)
ScalarInt(s) == Filled(1, s, 0, ToInt)
ScalarUint(s) == Filled(1, s, 0, ToUint)
ScalarSingle(s) == Filled(1, s, 0, ToReal)
ScalarDouble(s) == Filled(1, s, 0, ToReal)
ScalarTime(s) == Filled(1, s, <<0, 0>>, ToTime)
ScalarTimeSpan(s) == Filled(1, s, <<0, 0>>, ToSpan)
ScalarString(s) == Filled(1, s, <<>>, ToText)

(* A BYTE is read as if it were the BOOL in the same union.                *)
ScalarBool(s) ==
  IF s.type = "BYTE" /\ ~s.vec THEN {<<b>> : b \in {x \in Int3 : x % 4 = s.val[1]}}
  ELSE Filled(1, s, 0, ToBool)

DynvecByte(s) == Filled(Len(s.val), s, 0, ToByte)
DynvecInt(s) == Filled(Len(s.val), s, 0, ToInt)
DynvecUint(s) == Filled(Len(s.val), s, 0, ToUint)
DynvecTimeSpan(s) == Filled(Len(s.val), s, <<0, 0>>, ToSpan)
DynvecString(s) == Filled(Len(s.val), s, <<>>, ToText)

(* The bytes of a vector are read as if they were BOOLs, four at a time    *)
(* and over the end of the vector.                                         *)
DynvecBool(s) ==
  IF s.type = "BYTE" /\ s.vec THEN [1 .. Len(s.val) -> Int3]
  ELSE Filled(Len(s.val), s, 0, ToBool)

(* The words of a vector of UINTs are read as if they were real numbers.   *)
Misread(s) == [1 .. Len(s.val) -> Reals]
DynvecSingle(s) ==
  IF s.type = "UINT" /\ s.vec THEN Misread(s) ELSE Filled(Len(s.val), s, 0, ToReal)
DynvecDouble(s) ==
  IF s.type = "UINT" /\ s.vec THEN Misread(s) ELSE Filled(Len(s.val), s, 0, ToReal)

(* The fraction of the time made of an empty text is not initialised.      *)
DynvecTime(s) ==
  IF s.type = "STRING" /\ s.val = <<<<>>>> /\ ~s.vec THEN {<<<<0, u>>>> : u \in {0, 1}}
  ELSE Filled(Len(s.val), s, <<0, 0>>, ToTime)

StaticByte(s) == Filled(Width, s, 0, ToByte)
StaticInt(s) == Filled(Width, s, 0, ToInt)
StaticUint(s) == Filled(Width, s, 0, ToUint)
StaticSingle(s) == Filled(Width, s, 0, ToReal)
StaticTimeSpan(s) == Filled(Width, s, <<0, 0>>, ToSpan)

(* Numbers and times are cast, not compared with zero.                     *)
StaticBool(s) ==
  Filled(Width, s, 0, LAMBDA t, v :
    IF t \in {"BYTE", "BOOL"} \/ (t = "STRING" /\ v = <<"bool", TRUE>>) THEN ToBool(t, v)
    ELSE ToInt(t, v))

(* The fraction of a time span overwrites its seconds.                     *)
StaticDouble(s) ==
  Filled(Width, s, 0, LAMBDA t, v : IF t = "TIME_SPAN" THEN {v[2]} ELSE ToReal(t, v))

(* The fraction of a single time span is taken for whole microseconds.     *)
StaticTime(s) ==
  Filled(Width, s, <<0, 0>>, LAMBDA t, v :
    IF t = "TIME_SPAN" /\ ~s.vec THEN {<<Wrap(UInt3, v[1]), 0>>} ELSE ToTime(t, v))

Scalar(s) ==
  CASE decl.type = "BYTE" -> ScalarByte(s)
    [] decl.type = "BOOL" -> ScalarBool(s)
    [] decl.type = "INT" -> ScalarInt(s)
    [] decl.type = "UINT" -> ScalarUint(s)
    [] decl.type = "SINGLE" -> ScalarSingle(s)
    [] decl.type = "DOUBLE" -> ScalarDouble(s)
    [] decl.type = "TIME" -> ScalarTime(s)
    [] decl.type = "TIME_SPAN" -> ScalarTimeSpan(s)
    [] decl.type = "STRING" -> ScalarString(s)

Dynvec(s) ==
  CASE decl.type = "BYTE" -> DynvecByte(s)
    [] decl.type = "BOOL" -> DynvecBool(s)
    [] decl.type = "INT" -> DynvecInt(s)
    [] decl.type = "UINT" -> DynvecUint(s)
    [] decl.type = "SINGLE" -> DynvecSingle(s)
    [] decl.type = "DOUBLE" -> DynvecDouble(s)
    [] decl.type = "TIME" -> DynvecTime(s)
    [] decl.type = "TIME_SPAN" -> DynvecTimeSpan(s)
    [] decl.type = "STRING" -> DynvecString(s)

Static(s) ==
  CASE decl.type = "BYTE" -> StaticByte(s)
    [] decl.type = "BOOL" -> StaticBool(s)
    [] decl.type = "INT" -> StaticInt(s)
    [] decl.type = "UINT" -> StaticUint(s)
    [] decl.type = "SINGLE" -> StaticSingle(s)
    [] decl.type = "DOUBLE" -> StaticDouble(s)
    [] decl.type = "TIME" -> StaticTime(s)
    [] decl.type = "TIME_SPAN" -> StaticTimeSpan(s)

Converted(s) ==
  CASE decl.shape = "scalar" -> Scalar(s)
    [] decl.shape = "dynvec" -> Dynvec(s)
    [] decl.shape = "static" -> Static(s)

-----------------------------------------------------------------------------
(* Comparing and storing.                                                  *)

Stamp(s) == IF decl.pv THEN s.stamp ELSE 0

Bug_Changed(s, new) == var.val # new

Changed(s, new) == var.val # new \/ var.stamp # Stamp(s)

Bug_Stored(s, new) ==
  /\ var' = IF Changed(s, new) THEN [val |-> new, stamp |-> Stamp(s)] ELSE var
  /\ eexreq' = TRUE
  /\ result' = "OK"

Stored(s, new) ==
  /\ IF Changed(s, new) THEN var' = [val |-> new, stamp |-> Stamp(s)] /\ eexreq' = TRUE
     ELSE UNCHANGED <<var, eexreq>>
  /\ result' = "OK"

Fails(code) == result' = code /\ UNCHANGED <<var, eexreq>>

(* The database has no room for the new value: state and time are stored,  *)
(* and val is what is left of the value.                                   *)
HalfStored(s, val) ==
  /\ var' = [var EXCEPT !.val = val, !.stamp = Stamp(s)]
  /\ result' = "DBOUTOFMEMORY" /\ UNCHANGED eexreq

(* The variable's own set function, if it has one, stores the value or     *)
(* refuses it.  A value that does not differ is not stored.                *)
Accessor(s, new) == Stored(s, new) \/ Fails("REFUSED")

ScalarEval(s, new) ==
  IF decl.accessor THEN Accessor(s, new)
  ELSE \/ Stored(s, new)
       \/ Changed(s, new) /\ decl.type = "STRING" /\ new # <<<<>>>> /\ HalfStored(s, var.val)

(* Texts are freed before the vector is enlarged, and again if one of the  *)
(* new ones cannot be stored.                                              *)
Blank(n) == [i \in 1 .. n |-> <<>>]
DynvecEval(s, new) ==
  IF decl.accessor THEN Accessor(s, new)
  ELSE \/ Stored(s, new)
       \/ /\ Len(new) \notin {0, Len(var.val)}
          /\ HalfStored(s, IF decl.type = "STRING" THEN Blank(Len(var.val)) ELSE var.val)
       \/ /\ Changed(s, new) /\ decl.type = "STRING" /\ new # Blank(Len(new))
          /\ HalfStored(s, Blank(Len(new)))

StaticEval(s, new) == IF decl.accessor THEN Accessor(s, new) ELSE Stored(s, new)

(* A value of the variable's type and shape is taken as it is; any other   *)
(* conversion to a vector needs memory.                                    *)
Allocates(s) ==
  \/ decl.shape = "dynvec" /\ s.val # <<>> /\ ~(s.vec /\ s.type = (IF decl.type = "BOOL" THEN "BYTE" ELSE decl.type))
  \/ decl.shape = "static" /\ ~(s.vec /\ s.type = decl.type /\ Len(s.val) = Width)

(* The function for dynamic vectors of INTs looks at the type with the     *)
(* flags of PVs.                                                           *)
BadType(s) == decl.shape = "dynvec" /\ decl.type = "INT" /\ s.pv /\ ~(s.vec /\ s.type = "INT")

SetVarvalue(s) ==
  IF BadType(s) THEN Fails("BADTYPE")
  ELSE \/ Allocates(s) /\ Fails("DBOUTOFMEMORY")
       \/ \E new \in Converted(s) :
            CASE decl.shape = "scalar" -> ScalarEval(s, new)
              [] decl.shape = "dynvec" -> DynvecEval(s, new)
              [] decl.shape = "static" -> StaticEval(s, new)

-----------------------------------------------------------------------------
(* A variable of type ANY takes the value with its type.                   *)
SameAny(s) ==
  /\ s.type = var.type /\ s.vec = var.vec /\ s.pv = var.pv
  /\ s.type # "VOID" /\ (s.pv => s.stamp = var.stamp) /\ s.val = var.val

Kept(s) == [s EXCEPT !.stamp = IF s.pv THEN s.stamp ELSE 0]

SetAny(s) ==
  IF SameAny(s) /\ ~decl.accessor THEN result' = "OK" /\ UNCHANGED <<var, eexreq>>
  ELSE \/ IF ~decl.accessor /\ s.type = "BYTE" /\ ~s.vec THEN Fails("BADVALUE")
          ELSE var' = Kept(s) /\ eexreq' = (eexreq \/ ~SameAny(s)) /\ result' = "OK"
       \/ decl.accessor /\ Fails("REFUSED")
       \/ ~decl.accessor /\ (s.vec \/ s.type = "STRING") /\ s.val # <<>> /\ Fails("DBOUTOFMEMORY")

-----------------------------------------------------------------------------
Zero(type) == CASE type \in {"TIME", "TIME_SPAN"} -> <<0, 0>> [] type = "STRING" -> <<>> [] OTHER -> 0

Empty(d) ==
  CASE d.type = "ANY" -> void
    [] d.type # "ANY" ->
         [val |-> [i \in 1 .. (CASE d.shape = "scalar" -> 1 [] d.shape = "dynvec" -> 0 [] d.shape = "static" -> Width)
                     |-> Zero(d.type)],
          stamp |-> 0]

ValueInit ==
  /\ decl \in Decls
  /\ var = Empty(decl)
  /\ src = void /\ result = "NONE" /\ eexreq = FALSE

(* fb_object_setvar.                                                       *)
Write(s) ==
  /\ src' = s /\ UNCHANGED decl
  /\ IF decl.type = "ANY" THEN SetAny(s) ELSE SetVarvalue(s)

(* The block is executed, as FunctionBlocks has it.                        *)
Execute == eexreq /\ eexreq' = FALSE /\ UNCHANGED <<decl, var, src, result>>

ValueNext == (\E i \in DOMAIN Sources : Write(Sources[i])) \/ Execute

ValueSpec == ValueInit /\ [][ValueNext]_valueVars

-----------------------------------------------------------------------------
(* What a conversion promises, told from the amounts (in halves) that a    *)
(* value stands for.                                                       *)
Amount(t, v) ==
  CASE t \in {"TIME", "TIME_SPAN"} -> 2 * v[1] + v[2]
    [] t \in RealTypes -> v
    [] t = "STRING" -> Strtod(v)
    [] OTHER -> 2 * v

Ranges == [BYTE |-> Byte, INT |-> Int3, UINT |-> UInt3]

(* x, of a variable of type d, is what v of type t becomes, if that can be *)
(* represented.                                                            *)
Faithful(d, x, t, v) ==
  CASE t = d -> x = v
    [] t # d /\ d \in DOMAIN Ranges ->
         Trunc(Amount(t, v)) \in Ranges[d] => x = Trunc(Amount(t, v))
    [] t # d /\ d = "BOOL" ->
         x # 0 <=> (Amount(t, v) # 0 \/ (t = "STRING" /\ v = <<"bool", TRUE>>))
    [] t # d /\ d \in RealTypes -> x = Amount(t, v)
    [] t # d /\ d = "TIME" ->
         IF t = "STRING" THEN v # <<>> /\ v[1] = "clock" => x = <<v[2], v[3]>>
         ELSE Amount(t, v) \in 0 .. 15 => 2 * x[1] + x[2] = Amount(t, v)
    [] t # d /\ d = "TIME_SPAN" ->
         Amount(t, v) \in -9 .. 7 => 2 * x[1] + x[2] = Amount(t, v)
    [] t # d /\ d = "STRING" ->
         CASE t = "BOOL" -> x = <<"bool", v # 0>>
           [] t = "TIME" -> x = <<"clock", v[1], v[2]>>
           [] OTHER -> Strtod(x) = Amount(t, v)

(* The conversions that do not keep the promise.                           *)
Unfaithful(d, s, v) ==
  CASE d.type = "BOOL" ->
         \/ s.type = "BYTE" /\ ((d.shape = "scalar" /\ ~s.vec) \/ (d.shape = "dynvec" /\ s.vec))
         \/ d.shape = "static" /\ s.type \in RealTypes /\ (Trunc(v) = 0 \/ Trunc(v) \notin Int3)
         \/ d.shape = "static" /\ s.type \in {"TIME", "TIME_SPAN"} /\ v[1] = 0
         \/ s.type = "STRING" /\ (IF d.shape = "static" THEN Wrap(Int3, Atol(v)) ELSE Atol(v)) = 0
    [] d.type \in RealTypes ->
         \/ d.shape = "dynvec" /\ s.type = "UINT" /\ s.vec
         \/ d.type = "DOUBLE" /\ d.shape = "static" /\ s.type = "TIME_SPAN" /\ v[1] # 0
    [] d.type = "TIME" -> d.shape = "static" /\ s.type = "TIME_SPAN" /\ ~s.vec
    [] d.type = "TIME_SPAN" -> s.type = "STRING" /\ Strtod(v) = -1
    [] OTHER -> FALSE

(* After a write that succeeded, whatever failed before and however often  *)
(* nothing was stored because nothing seemed to differ, the variable holds *)
(* what the value written amounts to: the same in each of the functions    *)
(* for scalars, dynamic and static vectors, with what is missing zero, and *)
(* with the state and time of that value.  Excepted are the conversions    *)
(* listed above, where the functions disagree.                             *)
HoldsLastValue ==
  result = "OK" =>
    IF decl.type = "ANY" THEN var = Kept(src)
    ELSE /\ Len(var.val) = (CASE decl.shape = "scalar" -> 1 [] decl.shape = "dynvec" -> Len(src.val) [] OTHER -> Width)
         /\ \A i \in DOMAIN var.val :
              IF i > Len(src.val) THEN var.val[i] = Zero(decl.type)
              ELSE \/ Faithful(decl.type, var.val[i], src.type, src.val[i])
                   \/ Unfaithful(decl, src, src.val[i])
         /\ var.stamp = Stamp(src)

(* A write that succeeds requests an execution of the block if and only if *)
(* it changed the variable; only an ANY that is VOID again counts as       *)
(* changed.                                                                *)
RequestsExact ==
  [][result' = "OK" /\ ~eexreq =>
       eexreq' = (IF decl.type = "ANY" THEN ~SameAny(src') ELSE var' # var)]_valueVars

(* What a scalar holds can be written as a text and read back, as a client *)
(* does that saves and restores values: except time spans between minus    *)
(* one and zero seconds, whose sign is lost, BOOLs other than 0 and 1, and *)
(* times with a fraction that was cast from a negative one.                *)
Readers(d, text) ==
  CASE d = "BYTE" -> ToByte("STRING", text)
    [] d = "BOOL" -> ToBool("STRING", text)
    [] d = "INT" -> ToInt("STRING", text)
    [] d = "UINT" -> ToUint("STRING", text)
    [] d \in RealTypes -> ToReal("STRING", text)
    [] d = "TIME" -> ToTime("STRING", text)
    [] d = "TIME_SPAN" -> ToSpan("STRING", text)
    [] d = "STRING" -> {text}

ReadsBack ==
  decl.type # "ANY" =>
    \A i \in DOMAIN var.val :
      LET v == var.val[i] IN
      \/ \A text \in ToText(decl.type, v) : Readers(decl.type, text) = {v}
      \/ decl.type = "TIME_SPAN" /\ ((v[1] = 0 /\ v[2] < 0) \/ v[1] * v[2] < 0)
      \/ decl.type = "BOOL" /\ v \notin {0, 1}
      \/ decl.type = "TIME" /\ v[2] < 0
=============================================================================
