-------------------------- MODULE AfeRegisters_proofs --------------------------
(***************************************************************************)
(* The safety theorems of AfeRegisters, for the whole function table, any  *)
(* functions, values, direct writes and profiles that clients ask for, and *)
(* timeouts and restarts between any two words.                            *)
(***************************************************************************)
EXTENDS AfeRegisters, TLAPS

-------------------------------------------------------------------------------
(***************************************************************************)
(* Words as sums: a word is what is above a field, the field and what is   *)
(* below it.                                                               *)
(***************************************************************************)
Positive == Nat \ {0}

LEMMA Divided ==
    \A w \in Nat, n \in Positive :
        /\ w \div n \in Nat /\ w % n \in Nat /\ w % n < n
        /\ w = (w \div n) * n + (w % n)
BY SMTT(30) DEF Positive

LEMMA DividedSum ==
    \A q \in Int, n \in Positive, r \in Nat :
        r < n => (q * n + r) \div n = q /\ (q * n + r) % n = r
BY SMTT(30) DEF Positive

LEMMA Bounded ==
    \A h, c, m \in Nat, b \in Positive : h < c /\ m < b => h * b + m < c * b
BY SMTT(30) DEF Positive

LEMMA BoundedBelow ==
    \A h, c, m \in Nat, b \in Positive : h * b + m < c * b => h < c
BY SMTT(30) DEF Positive

LEMMA ExtractComposed ==
    ASSUME NEW h \in Nat, NEW m \in Nat, NEW l \in Nat,
           NEW a \in Positive, NEW b \in Positive, m < b, l < a
    PROVE  (((h * b + m) * a + l) \div a) % b = m
<1>1. h * b + m \in Int
  BY DEF Positive
<1>2. ((h * b + m) * a + l) \div a = h * b + m
  BY <1>1, DividedSum
<1>3. QED BY <1>2, DividedSum

LEMMA Decomposed ==
    ASSUME NEW w \in Nat, NEW a \in Positive, NEW b \in Positive
    PROVE  \E h, m, l \in Nat :
               /\ m < b /\ l < a /\ m = (w \div a) % b
               /\ w = (h * b + m) * a + l
<1> DEFINE h == (w \div a) \div b
           m == (w \div a) % b
           l == w % a
<1>1. l \in Nat /\ l < a /\ w = (w \div a) * a + l /\ w \div a \in Nat
  BY Divided
<1>2. h \in Nat /\ m \in Nat /\ m < b /\ w \div a = h * b + m
  BY <1>1, Divided
<1>3. w = (h * b + m) * a + l
  BY <1>1, <1>2
<1>4. QED BY <1>1, <1>2, <1>3

\* What is above a field that ends at bit b does not see it.
LEMMA AboveUnseen ==
    ASSUME NEW h \in Nat, NEW m \in Nat, NEW l \in Nat,
           NEW a \in Positive, NEW b \in Positive, NEW d \in Positive, m < b, l < a
    PROVE  ((h * b + m) * a + l) \div ((d * b) * a) = h \div d
<1> DEFINE q == h \div d
           r == h % d
           n == (d * b) * a
           rest == (r * b + m) * a + l
<1>1. q \in Nat /\ r \in Nat /\ r < d /\ h = q * d + r
  BY Divided
<1> HIDE DEF q, r
<1>2. r * b + m \in Nat /\ r * b + m < d * b /\ d * b \in Positive
  BY <1>1, Bounded DEF Positive
<1>3. rest \in Nat /\ rest < n /\ n \in Positive
  <2>1. rest < n
    BY <1>2, Bounded DEF Positive
  <2>2. QED BY <1>1, <1>2, <2>1 DEF Positive
<1>4. (h * b + m) * a + l = q * n + rest
  <2>1. \A x, y, u, v, w, s, t \in Int :
          ((x * y + u) * v + w) * s + t = x * ((y * v) * s) + (u * v + w) * s + t
    BY SMTT(30)
  <2>2. a \in Int /\ b \in Int /\ d \in Int
    BY DEF Positive
  <2>3. QED BY <1>1, <2>1, <2>2
<1>5. (q * n + rest) \div n = q
  BY <1>1, <1>3, DividedSum
<1>6. QED BY <1>4, <1>5 DEF q

\* What is below a field does not either.
LEMMA BelowUnseen ==
    ASSUME NEW y \in Nat, NEW l \in Nat,
           NEW a \in Positive, NEW b \in Positive, NEW d \in Positive
    PROVE  ((y * ((d * b) * a) + l) \div a) % b = (l \div a) % b
<1>1. PICK h, m, k \in Nat :
        /\ m < b /\ k < a /\ m = (l \div a) % b
        /\ l = (h * b + m) * a + k
  BY Decomposed, ZenonT(30)
<1>2. y * ((d * b) * a) + l = ((y * d + h) * b + m) * a + k
  <2>1. \A x, u, v, w, s, t, z \in Int :
          x * ((u * v) * w) + ((s * v + t) * w + z) = ((x * u + s) * v + t) * w + z
    BY SMTT(30)
  <2>2. a \in Int /\ b \in Int /\ d \in Int
    BY DEF Positive
  <2>3. QED BY <1>1, <2>1, <2>2
<1>3. y * d + h \in Nat
  BY DEF Positive
<1>4. ((((y * d + h) * b + m) * a + k) \div a) % b = m
  BY <1>1, <1>3, ExtractComposed
<1>5. QED BY <1>1, <1>2, <1>4

\* The table of the powers of two.
LEMMA Powers ==
    /\ \A i \in 0 .. 16 : Pow2(i) \in Positive
    /\ \A i, j \in 0 .. 16 : i + j <= 16 => Pow2(i + j) = Pow2(i) * Pow2(j)
BY SMTT(60) DEF Pow2, Positive

-------------------------------------------------------------------------------
(***************************************************************************)
(* The table                                                               *)
(***************************************************************************)
IsField(f) == f.register \in 0 .. 66 /\ f.msb \in 0 .. 15 /\ f.lsb \in 0 .. 15

LEMMA TableFields == \A f \in AFE_FUNCTIONS : IsField(f)
BY SMTT(60) DEF AFE_FUNCTIONS, Flags, Field, PerChannel, IsField, SOFTWARE_RESET,
                REGISTER_READOUT_ENABLE

\* Two functions of a register that are well formed share no bit.
Apart(f, g) == f.register = g.register => f.msb < g.lsb \/ g.msb < f.lsb

LEMMA TableApart ==
    \A f, g \in AFE_FUNCTIONS : WellFormed(f) /\ WellFormed(g) => f = g \/ Apart(f, g)
BY SMTT(60) DEF AFE_FUNCTIONS, Flags, Field, PerChannel, Apart, WellFormed, SOFTWARE_RESET,
                REGISTER_READOUT_ENABLE

\* The functions of a record are in the table, and no function is there twice.
LEMMA ProfileTable ==
    /\ Len(ProfileFields) = 12 /\ DOMAIN ProfileFields = 1 .. 12
    /\ \A i \in 1 .. 12 :
         ProfileFields[i] \in AFE_FUNCTIONS /\ WellFormed(ProfileFields[i])
           /\ ProfileFields[i].register # 0
    /\ \A i, j \in 1 .. 12 : ProfileFields[i] = ProfileFields[j] => i = j
BY SMTT(60) DEF ProfileFields, AFE_FUNCTIONS, Flags, Field, PerChannel, WellFormed

\* A value that the table allows fits into its field.
LEMMA AllowedFits ==
    \A f \in AFE_FUNCTIONS : WellFormed(f) => Allowed(f) \subseteq 0 .. Pow2(Width(f)) - 1
BY SMTT(60) DEF Allowed, Field, WellFormed, Pow2, Width

-------------------------------------------------------------------------------
(***************************************************************************)
(* extract and replace                                                     *)
(***************************************************************************)
LEMMA WordBound == \A n \in Nat : n \in Words <=> n < Pow2(16)
<1>1. 16 \in 0 .. 16
  OBVIOUS
<1>2. Pow2(16) \in Nat
  BY <1>1, Powers DEF Positive
<1>3. QED BY <1>2 DEF Words

\* The bits below a field, in it and above it make 16.
LEMMA FieldPowers ==
    ASSUME NEW f \in AFE_FUNCTIONS, WellFormed(f)
    PROVE  /\ Pow2(f.lsb) \in Positive /\ Pow2(Width(f)) \in Positive
           /\ \E c \in Positive : (c * Pow2(Width(f))) * Pow2(f.lsb) = Pow2(16)
<1> DEFINE l == f.lsb
           w == Width(f)
           h == 15 - f.msb
<1>1. l \in 0 .. 16 /\ w \in 0 .. 16 /\ h \in 0 .. 16 /\ (h + w) + l = 16 /\ h + w \in 0 .. 16
  BY TableFields DEF IsField, WellFormed, Width
<1> HIDE DEF l, w, h
<1>2. Pow2(h + w) = Pow2(h) * Pow2(w) /\ Pow2((h + w) + l) = Pow2(h + w) * Pow2(l)
  BY <1>1, Powers
<1>3. (Pow2(h) * Pow2(w)) * Pow2(l) = Pow2(16)
  BY <1>1, <1>2, Powers
<1>4. Pow2(h) \in Positive /\ Pow2(w) \in Positive /\ Pow2(l) \in Positive
  BY <1>1, Powers
<1>5. QED BY <1>3, <1>4 DEF l, w

\* A word as its field f, what is above it and what is below.
IsSum(word, f, h, m, l) ==
    /\ word = (h * Pow2(Width(f)) + m) * Pow2(f.lsb) + l
    /\ m < Pow2(Width(f)) /\ l < Pow2(f.lsb)

\* What replace does to the sum.
LEMMA ReplacedSum ==
    ASSUME NEW word \in Words, NEW f \in AFE_FUNCTIONS, WellFormed(f), NEW v \in Nat
    PROVE  \E h, m, l, new \in Nat :
             /\ new = v % Pow2(Width(f))
             /\ IsSum(word, f, h, m, l) /\ IsSum(Replace(word, f, v), f, h, new, l)
<1> DEFINE a == Pow2(f.lsb)
           b == Pow2(Width(f))
           new == v % b
<1>1. a \in Positive /\ b \in Positive
  BY FieldPowers
<1>2. Replace(word, f, v) = word + (new - ((word \div a) % b)) * a
  BY DEF Replace, Extract
<1> HIDE DEF a, b
<1>3. new \in Nat /\ new < b
  BY <1>1, Divided
<1> HIDE DEF new
<1>4. word \in Nat
  BY DEF Words
<1>5. PICK h, m, l \in Nat :
        m < b /\ l < a /\ m = (word \div a) % b /\ word = (h * b + m) * a + l
  BY <1>1, <1>4, Decomposed
<1>6. Replace(word, f, v) = (h * b + new) * a + l
  <2>1. \A x, y, z, u, t, k \in Int : ((x * y + z) * t + k) + (u - z) * t = (x * y + u) * t + k
    BY SMTT(30)
  <2>2. a \in Int /\ b \in Int /\ new \in Int
    BY <1>1, <1>3 DEF Positive
  <2>3. QED BY <1>2, <1>5, <2>1, <2>2
<1>7. IsSum(word, f, h, m, l) /\ IsSum(Replace(word, f, v), f, h, new, l)
  BY <1>3, <1>5, <1>6 DEF a, b, IsSum
<1>8. QED BY <1>3, <1>7 DEF b, new

LEMMA ReplaceInWords ==
    ASSUME NEW word \in Words, NEW f \in AFE_FUNCTIONS, WellFormed(f), NEW v \in Nat
    PROVE  Replace(word, f, v) \in Words
<1> DEFINE a == Pow2(f.lsb)
           b == Pow2(Width(f))
<1>1. PICK c \in Positive : a \in Positive /\ b \in Positive /\ (c * b) * a = Pow2(16)
  BY FieldPowers
<1>2. PICK h, m, l, new \in Nat :
        IsSum(word, f, h, m, l) /\ IsSum(Replace(word, f, v), f, h, new, l)
  BY ReplacedSum, Zenon
<1>3. /\ word = (h * b + m) * a + l /\ m < b /\ l < a
      /\ Replace(word, f, v) = (h * b + new) * a + l /\ new < b
  BY <1>2 DEF IsSum
<1> HIDE DEF a, b
<1>4. (h * b + m) * a + l < (c * b) * a
  <2>1. word \in Nat
    BY DEF Words
  <2>2. QED BY <1>1, <1>3, <2>1, WordBound
<1>5. c \in Nat /\ c * b \in Nat /\ h * b + m \in Nat /\ h * b + new \in Nat
  BY <1>1 DEF Positive
<1>6. h < c
  <2>1. h * b + m < c * b
    BY <1>1, <1>3, <1>4, <1>5, BoundedBelow
  <2>2. QED BY <1>1, <1>5, <2>1, BoundedBelow
<1>7. h * b + new < c * b
  BY <1>1, <1>3, <1>5, <1>6, Bounded
<1>8. (h * b + new) * a + l < (c * b) * a
  BY <1>1, <1>3, <1>5, <1>7, Bounded
<1>9. (h * b + new) * a + l \in Nat
  BY <1>1, <1>5 DEF Positive
<1>10. QED BY <1>1, <1>3, <1>8, <1>9, WordBound

\* A value that the table allows is read back as it was written,
LEMMA ReplaceSets ==
    ASSUME NEW word \in Words, NEW f \in AFE_FUNCTIONS, WellFormed(f), NEW v \in Allowed(f)
    PROVE  Extract(Replace(word, f, v), f) = v
<1> DEFINE a == Pow2(f.lsb)
           b == Pow2(Width(f))
<1>1. a \in Positive /\ b \in Positive
  BY FieldPowers
<1>2. v \in Nat /\ v % b = v
  BY <1>1, AllowedFits DEF Positive
<1>3. PICK h, m, l, new \in Nat : new = v % b /\ IsSum(Replace(word, f, v), f, h, new, l)
  BY <1>2, ReplacedSum, Zenon
<1>4. Replace(word, f, v) = (h * b + v) * a + l /\ v < b /\ l < a
  BY <1>2, <1>3 DEF IsSum
<1>5. Extract(Replace(word, f, v), f) = (((h * b + v) * a + l) \div a) % b
  BY <1>4 DEF Extract
<1> HIDE DEF a, b
<1>6. QED BY <1>1, <1>2, <1>4, <1>5, ExtractComposed

\* and no other function of the register sees it.
LEMMA ReplaceKeepsOthers ==
    ASSUME NEW word \in Words, NEW f \in AFE_FUNCTIONS, WellFormed(f), NEW v \in Nat,
           NEW g \in AFE_FUNCTIONS, WellFormed(g), g.register = f.register, g # f
    PROVE  Extract(Replace(word, f, v), g) = Extract(word, g)
<1> DEFINE a == Pow2(f.lsb)
           b == Pow2(Width(f))
           ga == Pow2(g.lsb)
           gb == Pow2(Width(g))
<1>1. a \in Positive /\ b \in Positive /\ ga \in Positive /\ gb \in Positive
  BY FieldPowers
<1>2. PICK h, m, l, new \in Nat :
        IsSum(word, f, h, m, l) /\ IsSum(Replace(word, f, v), f, h, new, l)
  BY ReplacedSum, Zenon
<1>3. /\ word = (h * b + m) * a + l /\ m < b /\ l < a
      /\ Replace(word, f, v) = (h * b + new) * a + l /\ new < b
  BY <1>2 DEF IsSum
<1>4. IsField(f) /\ IsField(g)
  BY TableFields
<1>5. /\ Extract(Replace(word, f, v), g) = (((h * b + new) * a + l) \div ga) % gb
      /\ Extract(word, g) = (((h * b + m) * a + l) \div ga) % gb
  BY <1>3 DEF Extract
<1>6. CASE f.msb < g.lsb
  <2>1. PICK d \in Positive : ga = (d * b) * a
    <3> DEFINE i == f.lsb
               w == Width(f)
               k == g.lsb - f.msb - 1
    <3>1. /\ i \in 0 .. 16 /\ w \in 0 .. 16 /\ k \in 0 .. 16 /\ k + w \in 0 .. 16
          /\ (k + w) + i = g.lsb /\ g.lsb <= 16
      BY <1>4, <1>6 DEF IsField, WellFormed, Width
    <3> HIDE DEF i, w, k
    <3>2. /\ Pow2(k + w) = Pow2(k) * Pow2(w)
          /\ Pow2((k + w) + i) = Pow2(k + w) * Pow2(i) /\ Pow2(k) \in Positive
      BY <3>1, Powers
    <3>3. Pow2(g.lsb) = (Pow2(k) * Pow2(w)) * Pow2(i)
      BY <3>1, <3>2
    <3>4. QED BY <3>2, <3>3 DEF i, w
  <2> HIDE DEF a, b, ga, gb
  <2>2. /\ ((h * b + new) * a + l) \div ((d * b) * a) = h \div d
        /\ ((h * b + m) * a + l) \div ((d * b) * a) = h \div d
    BY <1>1, <1>3, AboveUnseen
  <2>3. QED BY <1>5, <2>1, <2>2
<1>7. CASE g.msb < f.lsb
  <2>1. PICK d \in Positive : a = (d * gb) * ga
    <3> DEFINE i == g.lsb
               w == Width(g)
               k == f.lsb - g.msb - 1
    <3>1. /\ i \in 0 .. 16 /\ w \in 0 .. 16 /\ k \in 0 .. 16 /\ k + w \in 0 .. 16
          /\ (k + w) + i = f.lsb /\ f.lsb <= 16
      BY <1>4, <1>7 DEF IsField, WellFormed, Width
    <3> HIDE DEF i, w, k
    <3>2. /\ Pow2(k + w) = Pow2(k) * Pow2(w)
          /\ Pow2((k + w) + i) = Pow2(k + w) * Pow2(i) /\ Pow2(k) \in Positive
      BY <3>1, Powers
    <3>3. Pow2(f.lsb) = (Pow2(k) * Pow2(w)) * Pow2(i)
      BY <3>1, <3>2
    <3>4. QED BY <3>2, <3>3 DEF i, w
  <2> HIDE DEF a, b, ga, gb
  <2>2. h * b + new \in Nat /\ h * b + m \in Nat
    BY <1>1, <1>2 DEF Positive
  <2>3. /\ (((h * b + new) * ((d * gb) * ga) + l) \div ga) % gb = (l \div ga) % gb
        /\ (((h * b + m) * ((d * gb) * ga) + l) \div ga) % gb = (l \div ga) % gb
    BY <1>1, <1>2, <2>2, BelowUnseen
  <2>4. QED BY <1>5, <2>1, <2>3
<1>8. QED BY <1>6, <1>7, TableApart DEF Apart

\* A register of zeroes holds 0 in every field.
LEMMA ExtractZero ==
    ASSUME NEW f \in AFE_FUNCTIONS, WellFormed(f)
    PROVE  Extract(0, f) = 0
<1>1. \A n \in Positive : 0 \div n = 0 /\ 0 % n = 0
  BY DividedSum DEF Positive
<1>2. QED BY <1>1, FieldPowers DEF Extract

\* The words that switch the mode and back reset nothing.
LEMMA ModeWords ==
    /\ 0 \in Words /\ 2 \in Words
    /\ ~Resets(0) /\ ~Resets(2)
    /\ Extract(0, REGISTER_READOUT_ENABLE) # 1 /\ Extract(2, REGISTER_READOUT_ENABLE) = 1
BY SMTT(30) DEF Words, Pow2, Resets, Extract, Width, Field, SOFTWARE_RESET,
                REGISTER_READOUT_ENABLE

-------------------------------------------------------------------------------
(***************************************************************************)
(* The steps of the commands                                               *)
(***************************************************************************)
Addresses == Registers \cup {0}

\* The commands that a client can have asked for, and the steps of each.
Commands ==
    [kind : {"Read"}, register : Addresses]
        \cup {[kind |-> "Write", register |-> w.register, value |-> w.value] : w \in RawWrites}
        \cup [kind : {"Function"}, field : Functions, value : Values]
        \cup [kind : {"Apply"}, profile : Profiles]
        \cup {DoReset}

StepsOf(c) ==
    CASE c.kind = "Read" -> ReadSteps(c.register)
      [] c.kind = "Write" -> WriteSteps(Word(c.register, c.value))
      [] c.kind = "Function" -> FunctionSteps(c.field, c.value)
      [] c.kind = "Apply" -> ProfileSteps[c.profile]
      [] OTHER -> <<>>

\* The functions that a function write or a configuration writes.
WritesFunctions(c) == c.kind \in {"Function", "Apply"}
Count(c) == IF c.kind = "Apply" THEN Len(ProfileFields) ELSE 1
FieldAt(c, n) == IF c.kind = "Apply" THEN ProfileFields[n] ELSE c.field
ValueAt(c, n) == IF c.kind = "Apply" THEN c.profile[n] ELSE c.value

Steps ==
    [step : {"word"}, register : Nat, value : Nat]
        \cup [step : {"fetch"}]
        \cup [step : {"check", "modify"}, field : AFE_FUNCTIONS, value : Nat]

\* Register 0 keeps no value, and no function of a staged record is in it.
LEMMA RegistersTyped ==
    /\ Registers \subseteq Nat \ {0} /\ Addresses \subseteq Nat
    /\ \A f \in Functions : f \in AFE_FUNCTIONS /\ f.register \in Addresses
    /\ \A w \in RawWrites : w.register \in Addresses /\ w.value \in Words
    /\ \A p \in Profiles, i \in 1 .. 12 :
         p[i] \in Nat /\ ProfileFields[i].register \in Registers
<1>1. \A f \in Functions : f \in AFE_FUNCTIONS /\ f.register \in Nat
  BY RegistersAssumption, TableFields DEF IsField
<1>2. \A w \in RawWrites : w.register \in Nat /\ w.value \in Words
  <2> DEFINE Bytes == 0 .. 255
  <2>1. \A n \in Bytes : n \in Nat
    OBVIOUS
  <2>2. RawWrites \subseteq [register : Bytes, value : Words]
    BY RegistersAssumption
  <2> HIDE DEF Bytes
  <2>3. QED BY <2>1, <2>2
<1>3. \A i \in 1 .. 12 :
        /\ ProfileFields[i].register \in Nat \ {0}
        /\ ProfileFields[i] \in ToSet(ProfileFields)
  BY ProfileTable, TableFields DEF IsField, ToSet
<1>4. \A f \in ToSet(ProfileFields) : f.register \in Nat \ {0}
  BY <1>3, ProfileTable DEF ToSet
<1>5. Registers \subseteq Nat \ {0}
  BY <1>1, <1>2, <1>4 DEF Registers
<1>6. \A p \in Profiles, i \in 1 .. 12 : p[i] \in Nat
  <2> DEFINE Bytes == 0 .. 255
  <2>1. \A n \in Bytes : n \in Nat
    OBVIOUS
  <2>2. Profiles \subseteq [1 .. 12 -> Bytes]
    BY RegistersAssumption, ProfileTable
  <2> HIDE DEF Bytes
  <2>3. QED BY <2>1, <2>2
<1>7. \A p \in Profiles, i \in 1 .. 12 : ProfileFields[i].register \in Registers
  BY <1>3 DEF Registers
<1>8. \A f \in Functions : f.register \in Addresses
  BY <1>1 DEF Registers, Addresses
<1>9. \A w \in RawWrites : w.register \in Addresses
  BY <1>2 DEF Registers, Addresses
<1>10. Addresses \subseteq Nat
  BY <1>5 DEF Addresses
<1>11. QED BY <1>1, <1>2, <1>5, <1>6, <1>7, <1>8, <1>9, <1>10

\* u is s followed by t.
IsJoin(u, s, t) ==
    /\ u \in Seq(Steps) /\ Len(u) = Len(s) + Len(t)
    /\ \A k \in 1 .. Len(s) : u[k] = s[k]
    /\ \A k \in Len(s) + 1 .. Len(s) + Len(t) : u[k] = t[k - Len(s)]

LEMMA Joined == \A s, t \in Seq(Steps) : IsJoin(s \o t, s, t)
<1> SUFFICES ASSUME NEW s \in Seq(Steps), NEW t \in Seq(Steps)
             PROVE  IsJoin(s \o t, s, t)
  OBVIOUS
<1>1. s \o t \in Seq(Steps) /\ Len(s \o t) = Len(s) + Len(t)
  OBVIOUS
<1>2. \A k \in 1 .. Len(s) : (s \o t)[k] = s[k]
  OBVIOUS
<1>3. \A k \in Len(s) + 1 .. Len(s) + Len(t) : (s \o t)[k] = t[k - Len(s)]
  OBVIOUS
<1>4. QED BY <1>1, <1>2, <1>3 DEF IsJoin

LEMMA ReadStepsAre ==
    ASSUME NEW r \in Nat
    PROVE  /\ ReadSteps(r) \in Seq(Steps) /\ Len(ReadSteps(r)) = 4
           /\ ReadSteps(r)[1] = Trigger /\ ReadSteps(r)[2] = Word(r, 0)
           /\ ReadSteps(r)[3] = Fetch /\ ReadSteps(r)[4] = Idle
BY DEF ReadSteps, Steps, Trigger, Word, Fetch, Idle

LEMMA WriteStepsAre ==
    ASSUME NEW r \in Nat, NEW v \in Nat
    PROVE  LET steps == WriteSteps(Word(r, v))
           IN  /\ steps \in Seq(Steps) /\ Len(steps) = 5
               /\ steps[1] = Word(r, v)
               /\ \A k \in 2 .. 5 : steps[k] = ReadSteps(r)[k - 1]
<1>1. Word(r, v) \in Steps /\ Word(r, v).register = r
  BY DEF Word, Steps
<1>2. <<Word(r, v)>> \in Seq(Steps) /\ Len(<<Word(r, v)>>) = 1 /\ <<Word(r, v)>>[1] = Word(r, v)
  BY <1>1
<1>3. WriteSteps(Word(r, v)) = <<Word(r, v)>> \o ReadSteps(r)
  BY <1>1 DEF WriteSteps
<1> DEFINE one == <<Word(r, v)>>
           read == ReadSteps(r)
<1>4. read \in Seq(Steps) /\ Len(read) = 4
  BY ReadStepsAre
<1> HIDE DEF one, read
<1>5. one \in Seq(Steps) /\ Len(one) = 1 /\ one[1] = Word(r, v)
  BY <1>2 DEF one
<1>6. IsJoin(one \o read, one, read)
  BY <1>4, <1>5, Joined, Zenon
<1> DEFINE steps == one \o read
<1> HIDE DEF steps
<1>7. /\ steps \in Seq(Steps) /\ Len(steps) = 5
      /\ steps[1] = one[1] /\ \A k \in 2 .. 5 : steps[k] = read[k - 1]
  <2>1. IsJoin(steps, one, read)
    BY <1>6 DEF steps
  <2>2. QED BY <1>4, <1>5, <2>1 DEF IsJoin
<1>8. WriteSteps(Word(r, v)) = steps
  BY <1>3 DEF one, read, steps
<1>9. QED BY <1>5, <1>7, <1>8 DEF read

LEMMA FunctionStepsAre ==
    ASSUME NEW f \in AFE_FUNCTIONS, NEW v \in Nat
    PROVE  LET steps == FunctionSteps(f, v)
               read == ReadSteps(f.register)
           IN  /\ steps \in Seq(Steps) /\ Len(steps) = 14
               /\ steps[1] = Check(f, v) /\ steps[6] = Modify(f, v)
               /\ \A k \in 2 .. 5 : steps[k] = read[k - 1]
               /\ \A k \in 7 .. 10 : steps[k] = read[k - 6]
               /\ \A k \in 11 .. 14 : steps[k] = read[k - 10]
<1> DEFINE check == <<Check(f, v)>>
           read == ReadSteps(f.register)
           modify == <<Modify(f, v)>>
<1>1. f.register \in Nat
  BY TableFields DEF IsField
<1>2. read \in Seq(Steps) /\ Len(read) = 4
  BY <1>1, ReadStepsAre
<1>3. Check(f, v) \in Steps /\ Modify(f, v) \in Steps
  BY DEF Check, Modify, Steps
<1>4. /\ check \in Seq(Steps) /\ Len(check) = 1 /\ check[1] = Check(f, v)
      /\ modify \in Seq(Steps) /\ Len(modify) = 1 /\ modify[1] = Modify(f, v)
  BY <1>3
<1>5. FunctionSteps(f, v) = check \o read \o modify \o read \o read
  BY DEF FunctionSteps
<1> HIDE DEF check, read, modify
<1> DEFINE first == check \o read
           second == first \o modify
           third == second \o read
           steps == third \o read
<1>6. FunctionSteps(f, v) = steps
  BY <1>5
<1>7. /\ first \in Seq(Steps) /\ Len(first) = 5
      /\ first[1] = check[1] /\ \A k \in 2 .. 5 : first[k] = read[k - 1]
  <2>1. IsJoin(first, check, read)
    BY <1>2, <1>4, Joined, Zenon
  <2> HIDE DEF first
  <2>2. QED BY <1>2, <1>4, <2>1 DEF IsJoin
<1> HIDE DEF first
<1>8. /\ second \in Seq(Steps) /\ Len(second) = 6
      /\ second[6] = modify[1] /\ \A k \in 1 .. 5 : second[k] = first[k]
  <2>1. IsJoin(second, first, modify)
    BY <1>4, <1>7, Joined, Zenon
  <2> HIDE DEF second
  <2>2. QED BY <1>4, <1>7, <2>1 DEF IsJoin
<1> HIDE DEF second
<1>9. /\ third \in Seq(Steps) /\ Len(third) = 10
      /\ \A k \in 1 .. 6 : third[k] = second[k]
      /\ \A k \in 7 .. 10 : third[k] = read[k - 6]
  <2>1. IsJoin(third, second, read)
    BY <1>2, <1>8, Joined, Zenon
  <2> HIDE DEF third
  <2>2. QED BY <1>2, <1>8, <2>1 DEF IsJoin
<1> HIDE DEF third
<1>10. /\ steps \in Seq(Steps) /\ Len(steps) = 14
       /\ \A k \in 1 .. 10 : steps[k] = third[k]
       /\ \A k \in 11 .. 14 : steps[k] = read[k - 10]
  <2>1. IsJoin(steps, third, read)
    BY <1>2, <1>9, Joined, Zenon
  <2> HIDE DEF steps
  <2>2. QED BY <1>2, <1>9, <2>1 DEF IsJoin
<1> HIDE DEF steps
<1>11. QED BY <1>4, <1>6, <1>7, <1>8, <1>9, <1>10, SMTT(30) DEF read

LEMMA Places ==
    /\ \A i \in 1 .. 168 : ((i - 1) \div 14) + 1 \in 1 .. 12 /\ ((i - 1) % 14) + 1 \in 1 .. 14
    /\ \A n \in 1 .. 12, s \in 1 .. 14 :
         /\ 14 * (n - 1) + s \in 1 .. 168
         /\ ((14 * (n - 1) + s - 1) \div 14) + 1 = n
         /\ ((14 * (n - 1) + s - 1) % 14) + 1 = s
BY SMTT(30)

LEMMA ProfileStepsAre ==
    ASSUME NEW p \in Profiles
    PROVE  LET steps == ProfileSteps[p]
           IN  /\ steps \in Seq(Steps) /\ Len(steps) = 168
               /\ \A n \in 1 .. 12, s \in 1 .. 14 :
                    steps[14 * (n - 1) + s] = FunctionSteps(ProfileFields[n], p[n])[s]
<1> DEFINE StepAt(n, s) == FunctionSteps(ProfileFields[n], p[n])[s]
           steps == [i \in 1 .. 168 |-> StepAt(((i - 1) \div 14) + 1, ((i - 1) % 14) + 1)]
<1>1. ProfileSteps[p] = steps
  <2> DEFINE Laid(k, m) ==
               [i \in 1 .. k * m |-> StepAt(((i - 1) \div k) + 1, ((i - 1) % k) + 1)]
  <2>1. ProfileSteps[p] = Laid(2 + 3 * Len(ReadSteps(0)), Len(ProfileFields))
    BY Zenon DEF ProfileSteps
  <2>2. Len(ReadSteps(0)) = 4 /\ Len(ProfileFields) = 12
    BY ReadStepsAre, ProfileTable
  <2>3. 2 + 3 * 4 = 14 /\ 14 * 12 = 168
    OBVIOUS
  <2>4. ProfileSteps[p] = Laid(14, 12)
    <3> HIDE DEF Laid
    <3>1. QED BY <2>1, <2>2, <2>3, ZenonT(30)
  <2>5. QED BY <2>3, <2>4
<1>2. \A n \in 1 .. 12, s \in 1 .. 14 : StepAt(n, s) \in Steps
  <2> SUFFICES ASSUME NEW n \in 1 .. 12, NEW s \in 1 .. 14
               PROVE  StepAt(n, s) \in Steps
    OBVIOUS
  <2>1. ProfileFields[n] \in AFE_FUNCTIONS /\ p[n] \in Nat
    BY ProfileTable, RegistersTyped
  <2>2. FunctionSteps(ProfileFields[n], p[n]) \in Seq(Steps)
          /\ Len(FunctionSteps(ProfileFields[n], p[n])) = 14
    BY <2>1, FunctionStepsAre
  <2> HIDE DEF Steps
  <2>3. QED BY <2>2
<1> HIDE DEF StepAt
<1>3. steps \in Seq(Steps) /\ Len(steps) = 168
  <2>1. \A i \in 1 .. 168 : steps[i] \in Steps
    BY <1>2, Places
  <2>2. QED BY <2>1
<1>4. \A n \in 1 .. 12, s \in 1 .. 14 : steps[14 * (n - 1) + s] = StepAt(n, s)
  BY Places
<1> HIDE DEF steps
<1>5. QED BY <1>1, <1>3, <1>4, ZenonT(30) DEF StepAt

\* A command of functions takes 14 steps for each.
LEMMA FunctionCommands ==
    ASSUME NEW c \in Commands, WritesFunctions(c)
    PROVE  /\ Count(c) \in 1 .. 12
           /\ StepsOf(c) \in Seq(Steps) /\ Len(StepsOf(c)) = 14 * Count(c)
           /\ \A n \in 1 .. Count(c) :
                /\ FieldAt(c, n) \in AFE_FUNCTIONS /\ FieldAt(c, n).register \in Addresses
                /\ FieldAt(c, n) \in OwnFields(c) /\ ValueAt(c, n) \in Nat
                /\ \A s \in 1 .. 14 :
                     StepsOf(c)[14 * (n - 1) + s] = FunctionSteps(FieldAt(c, n), ValueAt(c, n))[s]
<1>1. CASE c.kind = "Apply"
  <2>1. c.profile \in Profiles
    BY <1>1 DEF Commands, DoReset
  <2>2. StepsOf(c) = ProfileSteps[c.profile] /\ Count(c) = 12
    BY <1>1, ProfileTable DEF StepsOf, Count
  <2>3. \A n \in 1 .. 12 :
          /\ FieldAt(c, n) = ProfileFields[n] /\ ValueAt(c, n) = c.profile[n]
          /\ ProfileFields[n] \in OwnFields(c)
    BY <1>1, ProfileTable DEF FieldAt, ValueAt, OwnFields, ToSet
  <2>4. \A n \in 1 .. 12 :
          /\ ProfileFields[n] \in AFE_FUNCTIONS /\ ProfileFields[n].register \in Addresses
          /\ c.profile[n] \in Nat
    BY <2>1, ProfileTable, RegistersTyped DEF Addresses
  <2> DEFINE steps == ProfileSteps[c.profile]
  <2> HIDE DEF Steps
  <2>5. /\ steps \in Seq(Steps) /\ Len(steps) = 168
        /\ \A n \in 1 .. 12, s \in 1 .. 14 :
             steps[14 * (n - 1) + s] = FunctionSteps(ProfileFields[n], c.profile[n])[s]
    BY <2>1, ProfileStepsAre, ZenonT(30)
  <2> DEFINE StepAt(n, s) == steps[14 * (n - 1) + s]
  <2>6. \A n \in 1 .. 12, s \in 1 .. 14 :
          StepAt(n, s) = FunctionSteps(ProfileFields[n], c.profile[n])[s]
    BY <2>5
  <2> HIDE DEF steps, StepAt
  <2>7. StepsOf(c) = steps
    BY <2>2 DEF steps
  <2>8. StepsOf(c) \in Seq(Steps) /\ Len(StepsOf(c)) = 14 * 12
    BY <2>5, <2>7
  <2>9. \A n \in 1 .. 12 :
          /\ FieldAt(c, n) \in AFE_FUNCTIONS /\ FieldAt(c, n).register \in Addresses
          /\ FieldAt(c, n) \in OwnFields(c) /\ ValueAt(c, n) \in Nat
    BY <2>3, <2>4
  <2>10. \A n \in 1 .. 12, s \in 1 .. 14 :
          StepsOf(c)[14 * (n - 1) + s] = FunctionSteps(FieldAt(c, n), ValueAt(c, n))[s]
    <3>1. \A n \in 1 .. 12, s \in 1 .. 14 :
            StepAt(n, s) = FunctionSteps(FieldAt(c, n), ValueAt(c, n))[s]
      BY <2>3, <2>6
    <3>2. QED BY <2>7, <3>1 DEF StepAt
  <2>11. Count(c) = 12 /\ 12 \in 1 .. 12
    BY <2>2
  <2>12. QED BY <2>8, <2>9, <2>10, <2>11, Zenon
<1>2. CASE c.kind = "Function"
  <2>1. c.field \in Functions /\ c.value \in Values
    BY <1>2 DEF Commands, DoReset
  <2>2. StepsOf(c) = FunctionSteps(c.field, c.value) /\ Count(c) = 1
    BY <1>2 DEF StepsOf, Count
  <2>3. FieldAt(c, 1) = c.field /\ ValueAt(c, 1) = c.value /\ c.field \in OwnFields(c)
    BY <1>2 DEF FieldAt, ValueAt, OwnFields
  <2>4. c.field \in AFE_FUNCTIONS /\ c.field.register \in Addresses /\ c.value \in Nat
    <3>1. Words \subseteq Nat
      BY DEF Words
    <3>2. QED BY <2>1, <3>1, RegistersTyped, RegistersAssumption
  <2> HIDE DEF Steps
  <2>5. FunctionSteps(c.field, c.value) \in Seq(Steps) /\ Len(FunctionSteps(c.field, c.value)) = 14
    BY <2>4, FunctionStepsAre
  <2>6. \A n \in 1 .. 1 : n = 1
    OBVIOUS
  <2>7. \A s \in 1 .. 14 : 14 * (1 - 1) + s = s
    OBVIOUS
  <2>8. QED BY <2>2, <2>3, <2>4, <2>5, <2>6, <2>7, SMTT(30)
<1>3. QED BY <1>1, <1>2 DEF WritesFunctions

LEMMA OtherCommands ==
    ASSUME NEW c \in Commands
    PROVE  /\ c.kind = "Read" =>
                c.register \in Addresses /\ StepsOf(c) = ReadSteps(c.register)
           /\ c.kind = "Write" =>
                /\ c.register \in Addresses /\ c.value \in Words
                /\ StepsOf(c) = WriteSteps(Word(c.register, c.value))
           /\ c.kind = "Reset" => StepsOf(c) = <<>>
           /\ c.kind \in {"Read", "Write", "Function", "Apply", "Reset"}
<1>1. c.kind \in {"Read", "Write", "Function", "Apply", "Reset"}
  BY DEF Commands, DoReset
<1>2. c.kind = "Read" => c.register \in Addresses
  BY DEF Commands, DoReset
<1>3. ASSUME c.kind = "Write"
      PROVE  c.register \in Addresses /\ c.value \in Words
  <2>1. PICK w \in RawWrites : c.register = w.register /\ c.value = w.value
    BY <1>3 DEF Commands, DoReset
  <2>2. QED BY <2>1, RegistersTyped
<1>4. QED BY <1>1, <1>2, <1>3 DEF StepsOf

LEMMA StepsOfTyped == \A c \in Commands : StepsOf(c) \in Seq(Steps)
<1> SUFFICES ASSUME NEW c \in Commands
             PROVE  StepsOf(c) \in Seq(Steps)
  OBVIOUS
<1>1. Addresses \subseteq Nat /\ Words \subseteq Nat
  BY RegistersTyped DEF Words
<1>2. CASE c.kind = "Read"
  BY <1>1, <1>2, OtherCommands, ReadStepsAre
<1>3. CASE c.kind = "Write"
  BY <1>1, <1>3, OtherCommands, WriteStepsAre
<1>4. CASE c.kind = "Reset"
  <2> HIDE DEF Steps
  <2>1. <<>> \in Seq(Steps)
    OBVIOUS
  <2>2. QED BY <1>4, <2>1, OtherCommands
<1>5. CASE c.kind \in {"Function", "Apply"}
  BY <1>5, FunctionCommands DEF WritesFunctions
<1>6. QED BY <1>2, <1>3, <1>4, <1>5, OtherCommands

\* A function of register 0 is written by no configuration, and so is the only one of its command.
LEMMA Register0Alone ==
    ASSUME NEW c \in Commands, NEW f \in OwnFields(c), f.register = 0
    PROVE  c.kind = "Function" /\ c.field = f /\ WritesRegister0(c) /\ Count(c) = 1
<1>1. c.kind # "Apply"
  <2>1. SUFFICES ASSUME c.kind = "Apply"
                 PROVE  FALSE
    OBVIOUS
  <2>2. PICK i \in 1 .. 12 : f = ProfileFields[i]
    BY <2>1, ProfileTable DEF OwnFields, ToSet
  <2>3. QED BY <2>2, ProfileTable
<1>2. c.kind = "Function" /\ c.field = f
  BY <1>1 DEF OwnFields
<1>3. QED BY <1>2 DEF WritesRegister0, Count

-------------------------------------------------------------------------------
(***************************************************************************)
(* The inductive invariant: how far the command under way has come, and    *)
(* what the AFE has made of its words until then.                          *)
(***************************************************************************)
Carries(register, value) == spi # NoWord /\ spi.register = register /\ spi.value = value

\* No word is on its way that could change a register, and the AFE is in its normal mode or
\* about to be.
Settled == Carries(0, 0) \/ (spi = NoWord /\ ~readout)

\* Where a read of register r is when k of its words have been sent or fetched. The address of
\* register 0 is an idle word.
Reading(k, r) ==
    /\ k = 1 => Carries(0, 2) \/ (spi = NoWord /\ readout)
    /\ k \in 2 .. 3 /\ r = 0 => Settled
    /\ k = 2 /\ r # 0 => readout /\ (Carries(r, 0) \/ (spi = NoWord /\ port = regs[r]))
    /\ k = 3 /\ r # 0 => readout /\ spi = NoWord /\ got = regs[r]
    /\ k = 4 => Settled /\ (r # 0 => got = regs[r])

\* The word that writes a function is on its way or has arrived.
Modified(f, v) ==
    /\ ~readout
    /\ \/ Carries(f.register, Replace(regs[f.register], f, v))
       \/ spi = NoWord /\ Holds(f, v)

\* That of a function of register 0, which is made of what the AFE put out last.
Pulsed(f, v) ==
    \/ spi # NoWord /\ spi.register = 0 /\ (f = SOFTWARE_RESET /\ v = 1 => Resets(spi.value))
    \/ spi = NoWord /\ Holds(f, v)

\* s of the steps of function f have been taken.
WritingAt(s, f, v) ==
    /\ WellFormed(f) /\ v \in Allowed(f)
    /\ s = 1 => unsure \/ Settled
    /\ s \in 2 .. 5 => Reading(s - 1, f.register)
    /\ s = 6 => IF f.register = 0 THEN Pulsed(f, v) ELSE Modified(f, v)
    /\ s \in 7 .. 10 => Reading(s - 6, f.register)
    /\ s \in 11 .. 14 => Reading(s - 10, f.register)

\* The functions before the n-th are written, and those behind it still at 0 if the command
\* began with a reset.
Contents(n, s) ==
    \A i \in 1 .. Count(command) :
        /\ i < n \/ (i = n /\ s > 6) => Holds(FieldAt(command, i), ValueAt(command, i))
        /\ command.kind = "Apply" /\ (i > n \/ (i = n /\ s < 6)) => Holds(FieldAt(command, i), 0)

\* The direct write of a register has been sent.
Written(r, v) ==
    /\ r = 0 \/ ~readout
    /\ Carries(r, v) \/ (spi = NoWord /\ Put(r, v))

\* Whether the AFE may not have taken the first word of a direct write.
Doubtful(c) == unsure /\ c.register # 0

Begun ==
    /\ unsure \/ Settled
    /\ command.kind = "Apply" => \A i \in 1 .. Count(command) : Holds(FieldAt(command, i), 0)

\* p of the steps of the command have been taken.
At(p) ==
    \/ p = 0 /\ Begun
    \/ /\ command.kind = "Read" /\ p \in 1 .. 4
       /\ Reading(p, command.register)
    \/ /\ command.kind = "Write" /\ p = 1
       /\ Doubtful(command) \/ Written(command.register, command.value)
    \/ /\ command.kind = "Write" /\ p \in 2 .. 5
       /\ Reading(p - 1, command.register)
       /\ Doubtful(command) \/ Put(command.register, command.value)
    \/ /\ WritesFunctions(command)
       /\ \E n \in 1 .. Count(command), s \in 1 .. 14 :
            /\ p = 14 * (n - 1) + s
            /\ WritingAt(s, FieldAt(command, n), ValueAt(command, n))
            /\ Contents(n, s)

\* todo is what is left of the command after p steps.
RestFrom(p) ==
    /\ Len(todo) = Len(StepsOf(command)) - p
    /\ \A i \in 1 .. Len(todo) : todo[i] = StepsOf(command)[p + i]

Underway ==
    result \in {"none", "ok"} => \E p \in 0 .. Len(StepsOf(command)) : RestFrom(p) /\ At(p)

\* A command that a check ended.
Refused ==
    result \in {"InvalidValue", "InvalidFunctionField"} =>
        /\ unsure \/ Settled
        /\ command.kind = "Apply" =>
             \E n \in 1 .. Count(command) :
                /\ ValueAt(command, n) \notin Allowed(FieldAt(command, n))
                /\ Contents(n, 0)

\* The word on its way, if the AFE is to put it into a register or to be reset by it.
WordOnWay ==
    spi # NoWord =>
        /\ spi.register \in Addresses /\ spi.value \in Words /\ spi.by \in Commands
        /\ spi.register = 0 /\ Resets(spi.value) => WritesRegister0(spi.by)
        /\ spi.register # 0 /\ ~readout =>
             \/ /\ spi.by.kind = "Write"
                /\ spi.register = spi.by.register /\ spi.value = spi.by.value
             \/ \E f \in OwnFields(spi.by), v \in Nat :
                  /\ WellFormed(f) /\ spi.register = f.register
                  /\ spi.value = Replace(regs[f.register], f, v)

Types ==
    /\ regs \in [Registers -> Words]
    /\ readout \in BOOLEAN /\ unsure \in BOOLEAN
    /\ port \in Words /\ got \in Words
    /\ command \in Commands /\ todo \in Seq(Steps)
    /\ result \in Results
    /\ result = "none" <=> todo # <<>>
    /\ command.kind \in {"Apply", "Reset"} => ~unsure

RegistersInv ==
    /\ Types
    /\ WordOnWay
    /\ Underway
    /\ Refused

-------------------------------------------------------------------------------
(***************************************************************************)
(* The AFE gets a word                                                     *)
(***************************************************************************)
\* A word for register 0 switches the mode; another is an address in readout mode.
LEMMA ModeSwitches ==
    ASSUME AfeTakesWord, spi.register = 0
    PROVE  /\ spi' = NoWord /\ got' = got /\ port' = port
           /\ regs' = IF Resets(spi.value) THEN Zeroes ELSE regs
           /\ readout' \in BOOLEAN
           /\ readout' <=> Extract(spi.value, REGISTER_READOUT_ENABLE) = 1
<1>1. /\ spi' = NoWord /\ got' = got /\ port' = port
      /\ regs' = IF Resets(spi.value) THEN Zeroes ELSE regs
      /\ readout' = (Extract(spi.value, REGISTER_READOUT_ENABLE) = 1)
  BY DEF AfeTakesWord
<1>2. readout' <=> Extract(spi.value, REGISTER_READOUT_ENABLE) = 1
  BY <1>1, Zenon
<1>3. readout' \in BOOLEAN
  BY <1>1, Zenon
<1>4. QED BY <1>1, <1>2, <1>3

LEMMA AddressRead ==
    ASSUME AfeTakesWord, spi.register # 0, readout
    PROVE  /\ spi' = NoWord /\ regs' = regs /\ got' = got /\ readout' = readout
           /\ port' = regs[spi.register]
BY DEF AfeTakesWord

LEMMA SettledTakes ==
    ASSUME Settled, AfeTakesWord
    PROVE  Settled' /\ regs' = regs /\ got' = got
<1>1. Carries(0, 0)
  BY DEF Settled, AfeTakesWord
<1>2. spi' = NoWord /\ ~readout' /\ regs' = regs /\ got' = got
  BY <1>1, ModeSwitches, ModeWords DEF Carries
<1>3. QED BY <1>2 DEF Settled

LEMMA ReadingTakes ==
    ASSUME NEW r \in Addresses, NEW k \in 1 .. 4, Reading(k, r), AfeTakesWord
    PROVE  Reading(k, r)' /\ regs' = regs
<1>1. CASE r = 0 /\ k \in 2 .. 3
  <2>1. Settled' /\ regs' = regs
    BY <1>1, SettledTakes DEF Reading
  <2>2. QED BY <1>1, <2>1 DEF Reading
<1>2. CASE k = 1
  <2>1. Carries(0, 2)
    BY <1>2 DEF Reading, AfeTakesWord
  <2>2. spi' = NoWord /\ readout' /\ regs' = regs
    BY <2>1, ModeSwitches, ModeWords DEF Carries
  <2>3. QED BY <1>2, <2>2 DEF Reading
<1>3. CASE r # 0 /\ k = 2
  <2>1. readout /\ Carries(r, 0)
    BY <1>3 DEF Reading, AfeTakesWord
  <2>2. spi' = NoWord /\ readout' = readout /\ regs' = regs /\ port' = regs[r]
    BY <1>3, <2>1, AddressRead DEF Carries
  <2>3. QED BY <1>3, <2>1, <2>2 DEF Reading
<1>4. CASE r # 0 /\ k = 3
  BY <1>4 DEF Reading, AfeTakesWord
<1>5. CASE k = 4
  <2>1. Settled /\ (r # 0 => got = regs[r])
    BY <1>5 DEF Reading
  <2>2. Settled' /\ regs' = regs /\ got' = got
    BY <2>1, SettledTakes
  <2>3. QED BY <1>5, <2>1, <2>2 DEF Reading
<1>6. QED BY <1>1, <1>2, <1>3, <1>4, <1>5

\* A word for a register in the normal mode.
LEMMA WordSets ==
    ASSUME NEW r \in Registers, NEW v, ~readout, Carries(r, v), AfeTakesWord
    PROVE  spi' = NoWord /\ ~readout' /\ regs' = [regs EXCEPT ![r] = v]
BY RegistersTyped DEF Carries, AfeTakesWord

LEMMA WrittenTakes ==
    ASSUME NEW r \in Addresses, NEW v, regs \in [Registers -> Words], Written(r, v), AfeTakesWord
    PROVE  Written(r, v)'
<1>1. (r = 0 \/ ~readout) /\ Carries(r, v)
  BY DEF Written, AfeTakesWord
<1>2. CASE r # 0
  <2>1. r \in Registers
    BY <1>2 DEF Addresses
  <2>2. spi' = NoWord /\ ~readout' /\ regs' = [regs EXCEPT ![r] = v]
    BY <1>1, <1>2, <2>1, WordSets
  <2>3. QED BY <1>2, <2>1, <2>2 DEF Written, Put
<1>3. CASE r = 0
  <2>1. spi' = NoWord /\ (Resets(v) => regs' = Zeroes)
    BY <1>1, <1>3, ModeSwitches DEF Carries
  <2>2. QED BY <1>3, <2>1 DEF Written, Put
<1>4. QED BY <1>2, <1>3

LEMMA ModifiedTakes ==
    ASSUME regs \in [Registers -> Words],
           NEW f \in AFE_FUNCTIONS, f.register \in Registers, WellFormed(f), NEW v \in Allowed(f),
           Modified(f, v), AfeTakesWord
    PROVE  /\ Modified(f, v)'
           /\ regs' = [regs EXCEPT ![f.register] = Replace(regs[f.register], f, v)]
<1>1. ~readout /\ Carries(f.register, Replace(regs[f.register], f, v))
  BY DEF Modified, AfeTakesWord
<1> DEFINE new == Replace(regs[f.register], f, v)
<1>2. spi' = NoWord /\ ~readout' /\ regs' = [regs EXCEPT ![f.register] = new]
  BY <1>1, WordSets
<1>3. regs'[f.register] = new
  BY <1>2
<1>4. Extract(new, f) = v
  BY ReplaceSets
<1> HIDE DEF new
<1>5. Holds(f, v)'
  BY <1>3, <1>4, RegistersTyped DEF Holds
<1>6. QED BY <1>2, <1>5 DEF Modified, new

LEMMA PulsedTakes ==
    ASSUME NEW f, f.register = 0, NEW v, Pulsed(f, v), AfeTakesWord
    PROVE  Pulsed(f, v)'
<1>1. spi # NoWord /\ spi.register = 0 /\ (f = SOFTWARE_RESET /\ v = 1 => Resets(spi.value))
  BY DEF Pulsed, AfeTakesWord
<1>2. spi' = NoWord /\ (Resets(spi.value) => regs' = Zeroes)
  BY <1>1, ModeSwitches
<1>3. Holds(f, v)'
  BY <1>1, <1>2 DEF Holds
<1>4. QED BY <1>2, <1>3 DEF Pulsed

\* A function that is written leaves the others as they are.
LEMMA WrittenKeepsOthers ==
    ASSUME regs \in [Registers -> Words],
           NEW f \in AFE_FUNCTIONS, f.register \in Registers, WellFormed(f), NEW v \in Nat,
           regs' = [regs EXCEPT ![f.register] = Replace(regs[f.register], f, v)],
           NEW g \in AFE_FUNCTIONS, g.register \in Registers, WellFormed(g), g # f
    PROVE  Extract(regs'[g.register], g) = Extract(regs[g.register], g)
<1>1. CASE g.register = f.register
  <2>1. regs[f.register] \in Words /\ regs'[g.register] = Replace(regs[f.register], f, v)
    BY <1>1
  <2>2. QED BY <1>1, <2>1, ReplaceKeepsOthers
<1>2. CASE g.register # f.register
  <2>1. regs'[g.register] = regs[g.register]
    BY <1>2
  <2>2. QED BY <2>1
<1>3. QED BY <1>1, <1>2

LEMMA ContentsStay ==
    ASSUME NEW n, NEW s, Contents(n, s), regs' = regs, command' = command
    PROVE  Contents(n, s)'
BY DEF Contents, Holds

\* The function that is being written is another than the rest of its record.
LEMMA ContentsWritten ==
    ASSUME Types, WritesFunctions(command), NEW n \in 1 .. Count(command), Contents(n, 6),
           command' = command, FieldAt(command, n).register # 0,
           LET f == FieldAt(command, n)
           IN  \E v \in Nat :
                 /\ WellFormed(f)
                 /\ regs' = [regs EXCEPT ![f.register] = Replace(regs[f.register], f, v)]
    PROVE  Contents(n, 6)'
<1> DEFINE f == FieldAt(command, n)
<1>1. PICK v \in Nat :
        WellFormed(f) /\ regs' = [regs EXCEPT ![f.register] = Replace(regs[f.register], f, v)]
  OBVIOUS
<1>2. command \in Commands /\ regs \in [Registers -> Words]
  BY DEF Types
<1>3. \A i \in 1 .. Count(command) :
        FieldAt(command, i) \in AFE_FUNCTIONS /\ FieldAt(command, i).register \in Addresses
  BY <1>2, FunctionCommands
<1>4. ASSUME NEW i \in 1 .. Count(command), i # n, NEW w, Holds(FieldAt(command, i), w)
      PROVE  Holds(FieldAt(command, i), w)'
  <2> DEFINE g == FieldAt(command, i)
  <2>1. command.kind = "Apply" /\ Count(command) = 12
    <3>1. Count(command) # 1
      BY <1>4
    <3>2. QED BY <3>1, ProfileTable DEF Count
  <2>2. f = ProfileFields[n] /\ g = ProfileFields[i]
    BY <2>1 DEF FieldAt
  <2>3. WellFormed(g) /\ g # f /\ g.register # 0
    BY <1>4, <2>1, <2>2, ProfileTable
  <2>4. f \in AFE_FUNCTIONS /\ f.register \in Registers
          /\ g \in AFE_FUNCTIONS /\ g.register \in Registers
    BY <1>3, <2>3 DEF Addresses
  <2> HIDE DEF f, g
  <2>5. Extract(regs'[g.register], g) = Extract(regs[g.register], g)
    BY <1>1, <1>2, <2>3, <2>4, WrittenKeepsOthers
  <2>6. Extract(regs[g.register], g) = w
    BY <1>4, <2>3 DEF Holds, g
  <2>7. Holds(g, w)'
    BY <2>3, <2>5, <2>6 DEF Holds, g
  <2>8. QED BY <2>7 DEF g
<1>5. QED BY <1>4 DEF Contents

LEMMA WritingTakes ==
    ASSUME Types, WritesFunctions(command), NEW n \in 1 .. Count(command), NEW s \in 1 .. 14,
           WritingAt(s, FieldAt(command, n), ValueAt(command, n)), Contents(n, s),
           s = 1 => n = 1 \/ ~unsure,
           AfeTakesWord
    PROVE  WritingAt(s, FieldAt(command, n), ValueAt(command, n))' /\ Contents(n, s)'
<1> DEFINE f == FieldAt(command, n)
           v == ValueAt(command, n)
<1>1. /\ command \in Commands /\ regs \in [Registers -> Words]
      /\ command' = command /\ unsure' = unsure
  BY DEF Types, AfeTakesWord
<1>2. /\ f \in AFE_FUNCTIONS /\ f.register \in Addresses /\ v \in Nat
      /\ f \in OwnFields(command)
  BY <1>1, FunctionCommands
<1>3. WellFormed(f) /\ v \in Allowed(f) /\ f' = f /\ v' = v
  BY <1>1 DEF WritingAt, FieldAt, ValueAt
<1>4. CASE s = 1 /\ Settled
  <2>1. Settled' /\ regs' = regs
    BY <1>4, SettledTakes
  <2>2. Contents(n, s)'
    BY <1>1, <2>1, ContentsStay
  <2>3. QED BY <1>3, <1>4, <2>1, <2>2 DEF WritingAt
<1>5. CASE s = 1 /\ ~Settled
  <2>1. unsure
    BY <1>5 DEF WritingAt
  <2>2. command.kind # "Apply" /\ n = 1
    BY <1>5, <2>1 DEF Types
  <2>3. Count(command) = 1
    BY <2>2 DEF Count
  <2>4. Contents(n, s)'
    BY <1>1, <1>5, <2>2, <2>3 DEF Contents
  <2>5. QED BY <1>1, <1>3, <1>5, <2>1, <2>4 DEF WritingAt
<1>6. ASSUME NEW k \in 1 .. 4, s \in {k + 1, k + 6, k + 10}
      PROVE  WritingAt(s, f, v)' /\ Contents(n, s)'
  <2>1. Reading(k, f.register)
    BY <1>6 DEF WritingAt
  <2>2. Reading(k, f.register)' /\ regs' = regs
    <3>1. PICK r \in Addresses : r = f.register
      BY <1>2
    <3>2. Reading(k, r)' /\ regs' = regs
      BY <2>1, <3>1, ReadingTakes
    <3>3. r = (f.register)'
      BY <1>3, <3>1
    <3>4. QED BY <3>2, <3>3
  <2>3. Contents(n, s)'
    BY <1>1, <2>2, ContentsStay
  <2>4. QED
    BY <1>3, <1>6, <2>2, <2>3 DEF WritingAt
<1>7. CASE s = 6 /\ f.register # 0
  <2>1. Modified(f, v) /\ f.register \in Registers
    BY <1>2, <1>7 DEF WritingAt, Addresses
  <2>2. /\ Modified(f, v)'
        /\ regs' = [regs EXCEPT ![f.register] = Replace(regs[f.register], f, v)]
    BY <1>1, <1>2, <1>3, <2>1, ModifiedTakes
  <2>3. Contents(n, s)'
    BY <1>1, <1>2, <1>3, <1>7, <2>2, ContentsWritten
  <2>4. QED BY <1>3, <1>7, <2>2, <2>3 DEF WritingAt
<1>8. CASE s = 6 /\ f.register = 0
  <2>1. command.kind = "Function" /\ Count(command) = 1
    BY <1>1, <1>2, <1>8, Register0Alone
  <2>2. Contents(n, s)'
    BY <1>1, <1>8, <2>1 DEF Contents
  <2>3. PICK ff, vv : ff = f /\ ff = f' /\ vv = v /\ vv = v'
    BY <1>3
  <2>4. Pulsed(ff, vv)
    BY <1>8, <2>3 DEF WritingAt
  <2> HIDE DEF f, v
  <2>5. Pulsed(ff, vv)'
    BY <1>8, <2>3, <2>4, PulsedTakes
  <2>6. Pulsed(f, v)'
    BY <2>3, <2>5
  <2>7. WritingAt(s, f, v)'
    BY <1>3, <1>8, <2>6 DEF WritingAt
  <2>8. QED BY <2>2, <2>7 DEF f, v
<1>9. s = 1 \/ s = 6 \/ \E k \in 1 .. 4 : s \in {k + 1, k + 6, k + 10}
  OBVIOUS
<1>10. QED BY <1>4, <1>5, <1>6, <1>7, <1>8, <1>9

LEMMA AtTakes ==
    ASSUME Types, NEW p \in Nat, At(p), AfeTakesWord
    PROVE  At(p)'
<1>1. /\ command \in Commands /\ regs \in [Registers -> Words]
      /\ command' = command /\ unsure' = unsure
  BY DEF Types, AfeTakesWord
<1>2. CASE p = 0 /\ Begun
  <2>1. unsure \/ Settled'
    BY <1>2, SettledTakes DEF Begun
  <2>2. ASSUME command.kind = "Apply"
        PROVE  \A i \in 1 .. Count(command) : Holds(FieldAt(command, i), 0)'
    <3>1. Settled
      BY <1>2, <2>2 DEF Types, Begun
    <3>2. regs' = regs
      BY <3>1, SettledTakes
    <3>3. QED BY <1>1, <1>2, <2>2, <3>2 DEF Begun, Holds
  <2>3. Begun'
    BY <1>1, <2>1, <2>2 DEF Begun
  <2>4. QED BY <1>2, <2>3 DEF At
<1>3. CASE command.kind = "Read" /\ p \in 1 .. 4 /\ Reading(p, command.register)
  <2>1. PICK r \in Addresses : r = command.register /\ r = command'.register
    BY <1>1, <1>3, OtherCommands
  <2>2. Reading(p, r)'
    BY <1>3, <2>1, ReadingTakes
  <2>3. Reading(p, command.register)'
    BY <2>1, <2>2
  <2>4. QED BY <1>1, <1>3, <2>3 DEF At
<1>4. CASE /\ command.kind = "Write" /\ p = 1
           /\ Doubtful(command) \/ Written(command.register, command.value)
  <2>1. PICK r \in Addresses, v \in Words :
          r = command.register /\ v = command.value /\ r = command'.register /\ v = command'.value
    BY <1>1, <1>4, OtherCommands
  <2>2. Doubtful(command) \/ Written(r, v)'
    BY <1>1, <1>4, <2>1, WrittenTakes
  <2>3. Doubtful(command)' \/ Written(command.register, command.value)'
    BY <1>1, <2>1, <2>2 DEF Doubtful
  <2>4. QED BY <1>1, <1>4, <2>3 DEF At
<1>5. CASE /\ command.kind = "Write" /\ p \in 2 .. 5
           /\ Reading(p - 1, command.register)
           /\ Doubtful(command) \/ Put(command.register, command.value)
  <2>1. PICK r \in Addresses : r = command.register /\ r = command'.register
    BY <1>1, <1>5, OtherCommands
  <2>2. p - 1 \in 1 .. 4
    BY <1>5
  <2>3. Reading(p - 1, r)' /\ regs' = regs
    BY <1>5, <2>1, <2>2, ReadingTakes
  <2>4. Reading(p - 1, command.register)'
    BY <2>1, <2>3
  <2>5. (Doubtful(command) \/ Put(command.register, command.value))'
    BY <1>1, <1>5, <2>3 DEF Doubtful, Put
  <2>6. QED BY <1>1, <1>5, <2>4, <2>5 DEF At
<1>6. CASE /\ WritesFunctions(command)
           /\ \E n \in 1 .. Count(command), s \in 1 .. 14 :
                /\ p = 14 * (n - 1) + s
                /\ WritingAt(s, FieldAt(command, n), ValueAt(command, n))
                /\ Contents(n, s)
  <2>1. PICK n \in 1 .. Count(command), s \in 1 .. 14 :
          /\ p = 14 * (n - 1) + s
          /\ WritingAt(s, FieldAt(command, n), ValueAt(command, n))
          /\ Contents(n, s)
    BY <1>6
  <2>2. s = 1 => n = 1 \/ ~unsure
    BY <1>6 DEF WritesFunctions, Types, Count
  <2>3. WritingAt(s, FieldAt(command, n), ValueAt(command, n))' /\ Contents(n, s)'
    BY <1>6, <2>1, <2>2, WritingTakes
  <2>4. n \in 1 .. Count(command') /\ WritesFunctions(command')
    BY <1>1, <1>6
  <2>5. QED BY <2>1, <2>3, <2>4 DEF At
<1>7. QED BY <1>2, <1>3, <1>4, <1>5, <1>6 DEF At

LEMMA WordOnWayTakes ==
    ASSUME AfeTakesWord
    PROVE  WordOnWay'
BY DEF AfeTakesWord, WordOnWay

LEMMA WriterWrites ==
    ASSUME NEW c \in Commands, NEW f \in OwnFields(c)
    PROVE  f \in AFE_FUNCTIONS /\ f.register \in Addresses
<1>1. CASE c.kind = "Function"
  <2>1. f = c.field /\ c.field \in Functions
    BY <1>1 DEF OwnFields, Commands, DoReset
  <2>2. QED BY <2>1, RegistersTyped
<1>2. CASE c.kind = "Apply"
  <2>1. c.profile \in Profiles
    BY <1>2 DEF Commands, DoReset
  <2>2. PICK i \in 1 .. 12 : f = ProfileFields[i]
    BY <1>2, ProfileTable DEF OwnFields, ToSet
  <2>3. QED BY <2>1, <2>2, ProfileTable, RegistersTyped DEF Addresses
<1>3. QED BY <1>1, <1>2 DEF OwnFields

LEMMA RegistersTake ==
    ASSUME Types, WordOnWay, AfeTakesWord
    PROVE  regs' \in [Registers -> Words] /\ port' \in Words /\ readout' \in BOOLEAN
<1>1. /\ spi # NoWord /\ spi.register \in Addresses /\ spi.value \in Words
      /\ regs \in [Registers -> Words] /\ port \in Words /\ readout \in BOOLEAN
  BY DEF AfeTakesWord, WordOnWay, Types
<1>2. CASE spi.register = 0
  <2>1. Zeroes \in [Registers -> Words]
    BY ModeWords DEF Zeroes
  <2>2. regs' \in {regs, Zeroes} /\ port' = port /\ readout' \in BOOLEAN
    BY <1>2, ModeSwitches
  <2>3. QED BY <1>1, <2>1, <2>2
<1>3. CASE spi.register # 0 /\ readout
  BY <1>1, <1>3 DEF AfeTakesWord, Addresses
<1>4. CASE spi.register # 0 /\ ~readout
  BY <1>1, <1>4 DEF AfeTakesWord, Addresses
<1>5. QED BY <1>2, <1>3, <1>4

LEMMA TypesTake ==
    ASSUME Types, WordOnWay, AfeTakesWord
    PROVE  Types'
BY RegistersTake DEF Types, AfeTakesWord

LEMMA UnderwayTakes ==
    ASSUME Types, Underway, AfeTakesWord
    PROVE  Underway'
<1>1. command \in Commands /\ command' = command /\ todo' = todo /\ result' = result
  BY DEF Types, AfeTakesWord
<1>2. SUFFICES ASSUME result' \in {"none", "ok"}
               PROVE  \E p \in 0 .. Len(StepsOf(command')) : RestFrom(p)' /\ At(p)'
  BY DEF Underway
<1>3. PICK p \in 0 .. Len(StepsOf(command)) : RestFrom(p) /\ At(p)
  BY <1>1, <1>2 DEF Underway
<1>4. RestFrom(p)'
  BY <1>1, <1>3 DEF RestFrom
<1>5. Len(StepsOf(command)) \in Nat
  BY <1>1, StepsOfTyped
<1>6. At(p)'
  BY <1>3, <1>5, AtTakes
<1>7. QED BY <1>1, <1>3, <1>4, <1>6

LEMMA RefusedTakes ==
    ASSUME Types, Refused, AfeTakesWord
    PROVE  Refused'
<1>1. command' = command /\ result' = result /\ unsure' = unsure
  BY DEF AfeTakesWord
<1>2. SUFFICES ASSUME result \in {"InvalidValue", "InvalidFunctionField"}
               PROVE  /\ unsure \/ Settled'
                      /\ command.kind = "Apply" => regs' = regs
  <2>1. ASSUME NEW n, regs' = regs, Contents(n, 0)
        PROVE  Contents(n, 0)'
    BY <1>1, <2>1, ContentsStay
  <2>2. QED BY <1>1, <2>1 DEF Refused
<1>3. unsure \/ Settled
  BY <1>2 DEF Refused
<1>4. command.kind = "Apply" => ~unsure
  BY DEF Types
<1>5. QED BY <1>3, <1>4, SettledTakes

-------------------------------------------------------------------------------
(***************************************************************************)
(* A command takes a step                                                  *)
(***************************************************************************)
LEMMA HeadIs ==
    ASSUME Types, todo # <<>>, NEW p \in 0 .. Len(StepsOf(command)), RestFrom(p)
    PROVE  p < Len(StepsOf(command)) /\ Head(todo) = StepsOf(command)[p + 1]
<1>1. todo \in Seq(Steps) /\ command \in Commands
  BY DEF Types
<1>2. StepsOf(command) \in Seq(Steps)
  BY <1>1, StepsOfTyped
<1> HIDE DEF Steps
<1>3. Len(todo) \in Nat \ {0} /\ Head(todo) = todo[1]
  BY <1>1
<1>4. QED BY <1>2, <1>3 DEF RestFrom

LEMMA Advanced ==
    ASSUME Types, todo # <<>>, NEW p \in 0 .. Len(StepsOf(command)), RestFrom(p), Advance
    PROVE  /\ p + 1 \in 0 .. Len(StepsOf(command')) /\ RestFrom(p + 1)'
           /\ todo' \in Seq(Steps) /\ result' \in {"none", "ok"}
           /\ result' = "none" <=> todo' # <<>>
<1>1. todo \in Seq(Steps) /\ command \in Commands
  BY DEF Types
<1>2. /\ command' = command /\ todo' = Tail(todo)
      /\ result' = IF Len(todo) = 1 THEN "ok" ELSE "none"
  BY DEF Advance
<1> DEFINE steps == StepsOf(command)
<1>3. steps \in Seq(Steps) /\ p < Len(steps) /\ StepsOf(command') = steps
  BY <1>1, <1>2, HeadIs, StepsOfTyped
<1>4. Len(todo) = Len(steps) - p /\ \A i \in 1 .. Len(todo) : todo[i] = steps[p + i]
  BY DEF RestFrom
<1> HIDE DEF steps, Steps
<1>5. /\ Tail(todo) \in Seq(Steps) /\ Len(Tail(todo)) = Len(todo) - 1
      /\ \A i \in 1 .. Len(todo) - 1 : Tail(todo)[i] = todo[i + 1]
      /\ Len(todo) = 1 <=> Tail(todo) = <<>>
  <2>1. Len(todo) \in Nat \ {0} /\ todo # <<>>
    BY <1>1
  <2>2. Tail(todo) \in Seq(Steps) /\ Len(Tail(todo)) = Len(todo) - 1
    BY <1>1, <2>1
  <2>3. \A i \in 1 .. Len(todo) - 1 : Tail(todo)[i] = todo[i + 1]
    BY <1>1, <2>1
  <2>4. \A t \in Seq(Steps) : t = <<>> <=> Len(t) = 0
    OBVIOUS
  <2>5. QED BY <2>1, <2>2, <2>3, <2>4
<1>6. \A i \in 1 .. Len(todo') : todo'[i] = steps[(p + 1) + i]
  BY <1>2, <1>3, <1>4, <1>5
<1>7. Len(todo') = Len(steps) - (p + 1)
  BY <1>2, <1>3, <1>4, <1>5
<1>8. RestFrom(p + 1)'
  BY <1>3, <1>6, <1>7 DEF RestFrom
<1>9. QED BY <1>2, <1>3, <1>5, <1>8

StepTaken == CheckPasses \/ SendWord \/ SendModified \/ FetchValue

\* No step of a command changes a register: that takes the AFE.
LEMMA StepLeaves ==
    ASSUME StepTaken
    PROVE  /\ todo # <<>> /\ Advance
           /\ regs' = regs /\ readout' = readout /\ port' = port /\ got' \in {got, port}
           /\ command' = command /\ unsure' = unsure
BY DEF StepTaken, CheckPasses, SendWord, SendModified, FetchValue, Send, Step, Advance, afe

\* A word is sent once the one before has arrived.
LEMMA WordSent ==
    ASSUME StepTaken, NEW r, NEW v, Head(todo) = Word(r, v)
    PROVE  /\ spi = NoWord /\ spi' = [register |-> r, value |-> v, by |-> command]
           /\ got' = got
<1>1. Head(todo).step = "word" /\ Head(todo).register = r /\ Head(todo).value = v
  BY DEF Word
<1>2. SendWord
  BY <1>1 DEF StepTaken, CheckPasses, SendModified, FetchValue, Step
<1>3. QED BY <1>1, <1>2 DEF SendWord, Send, Ready

LEMMA WordCarries ==
    ASSUME NEW r \in Nat, NEW v, spi' = [register |-> r, value |-> v, by |-> command]
    PROVE  Carries(r, v)'
<1>1. spi'.register = r /\ spi'.value = v
  OBVIOUS
<1>2. NoWord.register = -1
  BY DEF NoWord
<1>3. spi' # NoWord
  BY <1>1, <1>2
<1>4. QED BY <1>1, <1>3 DEF Carries

\* The mode switch and the idle word set no register, nor does an address in readout mode.
LEMMA WordFits ==
    ASSUME NEW r \in Addresses, NEW v \in Words, command \in Commands,
           Head(todo) = Word(r, v), StepTaken,
           \/ r = 0 /\ ~Resets(v)
           \/ r # 0 /\ readout
           \/ command.kind = "Write" /\ r = command.register /\ v = command.value
    PROVE  WordOnWay'
<1>1. spi' = [register |-> r, value |-> v, by |-> command]
  BY WordSent
<1>2. spi'.register = r /\ spi'.value = v /\ spi'.by = command
  BY <1>1
<1>3. readout' = readout
  BY StepLeaves
<1>4. r = 0 /\ Resets(v) => WritesRegister0(command)
  BY DEF WritesRegister0
<1>5. QED BY <1>2, <1>3, <1>4 DEF WordOnWay

LEMMA ReadingGoesOn ==
    ASSUME NEW r \in Addresses, NEW k \in 0 .. 3, k # 0 => Reading(k, r),
           Head(todo) = ReadSteps(r)[k + 1], StepTaken, command \in Commands, WordOnWay
    PROVE  Reading(k + 1, r)' /\ WordOnWay'
<1>1. /\ r \in Nat /\ 0 \in Addresses
      /\ regs' = regs /\ readout' = readout /\ port' = port
  BY RegistersTyped, StepLeaves DEF Addresses
<1>2. CASE k = 0
  <2>1. Head(todo) = Word(0, 2)
    BY <1>1, <1>2, ReadStepsAre DEF Trigger
  <2>2. Carries(0, 2)'
    BY <2>1, WordSent, WordCarries
  <2>3. WordOnWay'
    BY <1>1, <2>1, ModeWords, WordFits
  <2>4. QED BY <1>2, <2>2, <2>3 DEF Reading
<1>3. CASE k = 1
  <2>1. Head(todo) = Word(r, 0)
    BY <1>1, <1>3, ReadStepsAre
  <2>2. spi = NoWord /\ Carries(r, 0)'
    BY <1>1, <2>1, WordSent, WordCarries
  <2>3. readout
    BY <1>3, <2>2 DEF Reading, Carries
  <2>4. WordOnWay'
    BY <2>1, <2>3, ModeWords, WordFits
  <2>5. CASE r = 0
    BY <1>3, <2>2, <2>4, <2>5 DEF Reading, Settled
  <2>6. CASE r # 0
    BY <1>1, <1>3, <2>2, <2>3, <2>4, <2>6 DEF Reading
  <2>7. QED BY <2>5, <2>6
<1>4. CASE k = 2
  <2>1. Head(todo).step = "fetch"
    BY <1>1, <1>4, ReadStepsAre DEF Fetch
  <2>2. FetchValue
    BY <2>1 DEF StepTaken, CheckPasses, SendWord, SendModified, Step
  <2>3. spi = NoWord /\ spi' = NoWord /\ got' = port
    BY <2>2 DEF FetchValue, Ready, afe
  <2>4. WordOnWay'
    BY <2>3 DEF WordOnWay
  <2>5. CASE r = 0
    <3>1. ~readout
      BY <1>4, <2>3, <2>5 DEF Reading, Settled, Carries
    <3>2. QED BY <1>1, <1>4, <2>3, <2>4, <2>5, <3>1 DEF Reading, Settled
  <2>6. CASE r # 0
    <3>1. readout /\ port = regs[r]
      BY <1>4, <2>3, <2>6 DEF Reading, Carries
    <3>2. QED BY <1>1, <1>4, <2>3, <2>4, <2>6, <3>1 DEF Reading
  <2>7. QED BY <2>5, <2>6
<1>5. CASE k = 3
  <2>1. Head(todo) = Word(0, 0)
    BY <1>1, <1>5, ReadStepsAre DEF Idle
  <2>2. Carries(0, 0)' /\ got' = got
    BY <2>1, WordSent, WordCarries
  <2>3. WordOnWay'
    BY <1>1, <2>1, ModeWords, WordFits
  <2>4. QED BY <1>1, <1>5, <2>2, <2>3 DEF Reading, Settled
<1>6. QED BY <1>2, <1>3, <1>4, <1>5

\* write_afe_function's own word is made of what was read just before it.
LEMMA ModifiedSent ==
    ASSUME Types, NEW f \in OwnFields(command), WellFormed(f), NEW v \in Allowed(f),
           Reading(4, f.register), Head(todo) = Modify(f, v), StepTaken
    PROVE  /\ IF f.register = 0 THEN Pulsed(f, v)' ELSE Modified(f, v)'
           /\ WordOnWay'
<1>1. Head(todo).step = "modify" /\ Head(todo).field = f /\ Head(todo).value = v
  BY DEF Modify
<1>2. SendModified
  BY <1>1 DEF StepTaken, CheckPasses, SendWord, FetchValue, Step
<1>3. command \in Commands /\ regs \in [Registers -> Words] /\ got \in Words
  BY DEF Types
<1>4. f \in AFE_FUNCTIONS /\ f.register \in Addresses /\ v \in Nat
  BY <1>3, WriterWrites, AllowedFits
<1> DEFINE word == Replace(got, f, v)
<1>5. spi = NoWord /\ spi' = [register |-> f.register, value |-> word, by |-> command]
  BY <1>1, <1>2 DEF SendModified, Send, Ready
<1>6. ~readout /\ (f.register # 0 => got = regs[f.register])
  BY <1>5 DEF Reading, Settled, Carries
<1>7. regs' = regs /\ readout' = readout
  BY StepLeaves
<1>8. word \in Words
  BY <1>3, <1>4, ReplaceInWords
<1>9. PICK w \in Words : w = word
  BY <1>8
<1>10. spi' = [register |-> f.register, value |-> w, by |-> command]
  BY <1>5, <1>9
<1>11. Carries(f.register, w)'
  BY <1>4, <1>10, RegistersTyped, WordCarries
<1>12. spi'.register = f.register /\ spi'.value = w /\ spi'.by = command
  BY <1>10
<1>13. CASE f.register # 0
  <2>1. w = Replace(regs[f.register], f, v) /\ w = Replace(regs'[f.register], f, v)
    BY <1>6, <1>7, <1>9, <1>13
  <2> HIDE DEF word
  <2>2. Modified(f, v)'
    BY <1>6, <1>7, <1>11, <2>1 DEF Modified
  <2>3. WordOnWay'
    BY <1>3, <1>4, <1>12, <1>13, <2>1 DEF WordOnWay
  <2>4. QED BY <1>13, <2>2, <2>3
<1>14. CASE f.register = 0
  <2>1. f = SOFTWARE_RESET /\ v = 1 => Resets(w)
    BY <1>3, <1>4, <1>9, ReplaceSets DEF Resets
  <2>2. spi' # NoWord
    BY <1>11 DEF Carries
  <2> HIDE DEF word
  <2>3. Pulsed(f, v)'
    BY <1>12, <1>14, <2>1, <2>2 DEF Pulsed
  <2>4. WritesRegister0(command)
    BY <1>3, <1>14, Register0Alone
  <2>5. WordOnWay'
    BY <1>3, <1>4, <1>12, <1>14, <2>4 DEF WordOnWay
  <2>6. QED BY <1>14, <2>3, <2>5
<1>15. QED BY <1>13, <1>14

LEMMA ContentsGoOn ==
    ASSUME NEW n, NEW s \in 0 .. 13, Contents(n, s),
           s = 6 => Holds(FieldAt(command, n), ValueAt(command, n)),
           regs' = regs, command' = command
    PROVE  Contents(n, s + 1)'
BY DEF Contents, Holds

LEMMA FunctionGoesOn ==
    ASSUME Types, WordOnWay, WritesFunctions(command), NEW n \in 1 .. Count(command),
           NEW s \in 0 .. 13, Contents(n, s),
           IF s = 0 THEN unsure \/ Settled
           ELSE WritingAt(s, FieldAt(command, n), ValueAt(command, n)),
           Head(todo) = FunctionSteps(FieldAt(command, n), ValueAt(command, n))[s + 1],
           StepTaken
    PROVE  /\ WritingAt(s + 1, FieldAt(command, n), ValueAt(command, n))'
           /\ Contents(n, s + 1)'
           /\ WordOnWay'
<1> DEFINE f == FieldAt(command, n)
           v == ValueAt(command, n)
           read == ReadSteps(f.register)
           steps == FunctionSteps(f, v)
<1>1. /\ command \in Commands
      /\ command' = command /\ unsure' = unsure /\ regs' = regs /\ readout' = readout
  BY StepLeaves DEF Types
<1>2. /\ f \in AFE_FUNCTIONS /\ f.register \in Addresses /\ v \in Nat
      /\ f \in OwnFields(command)
  BY <1>1, FunctionCommands
<1>3. f' = f /\ v' = v
  BY <1>1 DEF FieldAt, ValueAt
<1>4. /\ steps[1] = Check(f, v) /\ steps[6] = Modify(f, v)
      /\ \A k \in 2 .. 5 : steps[k] = read[k - 1]
      /\ \A k \in 7 .. 10 : steps[k] = read[k - 6]
      /\ \A k \in 11 .. 14 : steps[k] = read[k - 10]
  BY <1>2, FunctionStepsAre
<1>5. s # 0 => WritingAt(s, f, v) /\ WellFormed(f) /\ v \in Allowed(f)
  BY DEF WritingAt
<1>6. Head(todo) = steps[s + 1]
  OBVIOUS
<1> HIDE DEF f, v, read, steps
<1>7. CASE s = 0
  <2>1. Head(todo).step = "check" /\ Head(todo).field = f /\ Head(todo).value = v
    BY <1>4, <1>6, <1>7 DEF Check
  <2>2. CheckPasses
    BY <2>1 DEF StepTaken, SendWord, SendModified, FetchValue, Step
  <2>3. WellFormed(f) /\ v \in Allowed(f)
    BY <2>1, <2>2 DEF CheckPasses, CheckError
  <2>4. spi' = spi
    BY <2>2 DEF CheckPasses, afe
  <2>5. unsure' \/ Settled'
    BY <1>1, <1>7, <2>4 DEF Settled, Carries
  <2>6. WritingAt(1, f, v)'
    BY <1>3, <2>3, <2>5 DEF WritingAt
  <2>7. Contents(n, 1)'
    BY <1>1, <1>7, ContentsGoOn
  <2>8. WordOnWay'
    BY <1>1, <2>4 DEF WordOnWay
  <2>9. QED BY <1>7, <2>6, <2>7, <2>8 DEF f, v
<1>8. ASSUME NEW k \in 0 .. 3, s \in {k + 1, k + 6, k + 10}
      PROVE  /\ WritingAt(s + 1, FieldAt(command, n), ValueAt(command, n))'
             /\ Contents(n, s + 1)'
             /\ WordOnWay'
  <2>1. PICK r \in Addresses : r = f.register /\ r = (f.register)'
    BY <1>2, <1>3
  <2>2. Head(todo) = ReadSteps(r)[k + 1]
    BY <1>4, <1>6, <1>8, <2>1 DEF read
  <2>3. k # 0 => Reading(k, r)
    BY <1>5, <1>8, <2>1 DEF WritingAt
  <2>4. Reading(k + 1, r)' /\ WordOnWay'
    BY <1>1, <2>2, <2>3, ReadingGoesOn
  <2>5. Reading(k + 1, f.register)'
    BY <2>1, <2>4
  <2>6. WritingAt(s + 1, f, v)'
    BY <1>3, <1>5, <1>8, <2>5 DEF WritingAt
  <2>7. s = 6 => Holds(f, v)
    <3>1. SUFFICES ASSUME s = 6
                   PROVE  Holds(f, v)
      OBVIOUS
    <3>2. Pulsed(f, v) \/ Modified(f, v)
      BY <1>5, <3>1 DEF WritingAt
    <3>3. spi = NoWord
      <4>1. Head(todo) = Word(0, 2)
        BY <1>8, <2>1, <2>2, <3>1, RegistersTyped, ReadStepsAre DEF Trigger
      <4>2. QED BY <4>1, WordSent
    <3>4. QED BY <3>2, <3>3 DEF Pulsed, Modified, Carries
  <2>8. Contents(n, s + 1)'
    BY <1>1, <2>7, ContentsGoOn DEF f, v
  <2>9. QED BY <2>4, <2>6, <2>8 DEF f, v
<1>9. CASE s = 5
  <2>1. Reading(4, f.register)
    BY <1>5, <1>9 DEF WritingAt
  <2>2. (IF f.register = 0 THEN Pulsed(f, v) ELSE Modified(f, v))' /\ WordOnWay'
    <3>1. PICK ff, vv : ff = f /\ ff = f' /\ vv = v /\ vv = v'
      BY <1>3
    <3>2. (IF ff.register = 0 THEN Pulsed(ff, vv)' ELSE Modified(ff, vv)') /\ WordOnWay'
      BY <1>2, <1>4, <1>5, <1>6, <1>9, <2>1, <3>1, ModifiedSent
    <3>3. QED BY <3>1, <3>2
  <2>3. WritingAt(6, f, v)'
    BY <1>3, <1>5, <1>9, <2>2 DEF WritingAt
  <2>4. Contents(n, s + 1)'
    BY <1>1, <1>9, ContentsGoOn
  <2>5. QED BY <1>9, <2>2, <2>3, <2>4 DEF f, v
<1>10. s = 0 \/ s = 5 \/ \E k \in 0 .. 3 : s \in {k + 1, k + 6, k + 10}
  OBVIOUS
<1>11. QED BY <1>7, <1>8, <1>9, <1>10

\* The function at hand, and the next step of it.
Hand(p, n, s) ==
    /\ p = 14 * (n - 1) + s
    /\ IF s = 0 THEN unsure \/ Settled
       ELSE WritingAt(s, FieldAt(command, n), ValueAt(command, n))
    /\ Contents(n, s)

LEMMA FunctionAtHand ==
    ASSUME command \in Commands, WritesFunctions(command),
           NEW p \in Nat, p < 14 * Count(command), At(p)
    PROVE  \E n \in 1 .. Count(command), s \in 0 .. 13 : Hand(p, n, s)
<1>1. Count(command) \in 1 .. 12
  BY FunctionCommands
<1>2. CASE p = 0 /\ Begun
  <2>1. unsure \/ Settled
    BY <1>2 DEF Begun
  <2>2. Contents(1, 0)
    BY <1>2 DEF Begun, Contents
  <2>3. Hand(p, 1, 0)
    BY <1>2, <2>1, <2>2 DEF Hand
  <2>4. QED BY <1>1, <2>3
<1>3. CASE \E n \in 1 .. Count(command), s \in 1 .. 14 :
             /\ p = 14 * (n - 1) + s
             /\ WritingAt(s, FieldAt(command, n), ValueAt(command, n))
             /\ Contents(n, s)
  <2>1. PICK n \in 1 .. Count(command), s \in 1 .. 14 :
          /\ p = 14 * (n - 1) + s
          /\ WritingAt(s, FieldAt(command, n), ValueAt(command, n))
          /\ Contents(n, s)
    BY <1>3
  <2>2. CASE s # 14
    <3>1. Hand(p, n, s) /\ s \in 0 .. 13
      BY <2>1, <2>2 DEF Hand
    <3>2. QED BY <3>1
  <2>3. CASE s = 14
    <3>1. p = 14 * ((n + 1) - 1) + 0 /\ n + 1 \in 1 .. Count(command)
      BY <1>1, <2>1, <2>3
    <3>2. unsure \/ Settled
      BY <2>1, <2>3 DEF WritingAt, Reading
    <3>3. Contents(n + 1, 0)
      BY <1>1, <2>1, <2>3 DEF Contents
    <3>4. Hand(p, n + 1, 0)
      BY <3>1, <3>2, <3>3 DEF Hand
    <3>5. QED BY <3>1, <3>4
  <2>4. QED BY <2>2, <2>3
<1>4. QED BY <1>2, <1>3 DEF At, WritesFunctions

LEMMA AtAdvances ==
    ASSUME Types, WordOnWay, StepTaken,
           NEW p \in 0 .. Len(StepsOf(command)), RestFrom(p), At(p)
    PROVE  At(p + 1)' /\ WordOnWay'
<1>1. /\ command \in Commands /\ todo # <<>>
      /\ command' = command /\ unsure' = unsure /\ regs' = regs /\ readout' = readout
  BY StepLeaves DEF Types
<1>2. Len(StepsOf(command)) \in Nat /\ p < Len(StepsOf(command))
        /\ Head(todo) = StepsOf(command)[p + 1]
  BY <1>1, HeadIs, StepsOfTyped
<1>3. CASE command.kind = "Read"
  <2>1. PICK r \in Addresses : r = command.register /\ r = command'.register
    BY <1>1, <1>3, OtherCommands
  <2>2. p \in 0 .. 3 /\ Head(todo) = ReadSteps(r)[p + 1]
    <3>1. StepsOf(command) = ReadSteps(r)
      BY <1>1, <1>3, <2>1, OtherCommands
    <3>2. Len(ReadSteps(r)) = 4
      BY RegistersTyped, ReadStepsAre
    <3>3. QED BY <1>2, <3>1, <3>2
  <2>3. p # 0 => Reading(p, r)
    BY <1>3, <2>1 DEF At, WritesFunctions
  <2>4. Reading(p + 1, r)' /\ WordOnWay'
    BY <1>1, <2>2, <2>3, ReadingGoesOn
  <2>5. Reading(p + 1, command.register)'
    BY <2>1, <2>4
  <2>6. QED BY <1>1, <1>3, <2>2, <2>4, <2>5 DEF At
<1>4. CASE command.kind = "Write"
  <2>1. PICK r \in Addresses, v \in Words :
          r = command.register /\ v = command.value /\ r = command'.register /\ v = command'.value
    BY <1>1, <1>4, OtherCommands
  <2>2. r \in Nat /\ v \in Nat
    <3>1. r \in Nat
      BY RegistersTyped
    <3>2. v \in Nat
      BY DEF Words
    <3>3. QED BY <3>1, <3>2
  <2>3. /\ p \in 0 .. 4
        /\ p = 0 => Head(todo) = Word(r, v)
        /\ p # 0 => Head(todo) = ReadSteps(r)[p]
    <3> DEFINE steps == WriteSteps(Word(r, v))
    <3>1. StepsOf(command) = steps
      BY <1>1, <1>4, <2>1, OtherCommands
    <3>2. /\ Len(steps) = 5 /\ steps[1] = Word(r, v)
          /\ \A k \in 2 .. 5 : steps[k] = ReadSteps(r)[k - 1]
      BY <2>2, WriteStepsAre
    <3> HIDE DEF steps
    <3>3. p \in 0 .. 4 /\ Head(todo) = steps[p + 1]
      BY <1>2, <3>1, <3>2
    <3>4. p # 0 => steps[p + 1] = ReadSteps(r)[(p + 1) - 1]
      BY <3>2, <3>3
    <3>5. QED BY <3>2, <3>3, <3>4
  <2>4. CASE p = 0
    <3>1. spi = NoWord /\ Carries(r, v)'
      BY <2>2, <2>3, <2>4, WordSent, WordCarries
    <3>2. unsure \/ ~readout
      BY <1>4, <2>4, <3>1 DEF At, Begun, Settled, Carries, WritesFunctions
    <3>3. (unsure /\ r # 0) \/ Written(r, v)'
      BY <1>1, <3>1, <3>2 DEF Written
    <3>4. Doubtful(command)' \/ Written(command.register, command.value)'
      BY <1>1, <2>1, <3>3 DEF Doubtful
    <3>5. WordOnWay'
      BY <1>1, <1>4, <2>1, <2>3, <2>4, WordFits
    <3>6. QED BY <1>1, <1>4, <2>4, <3>4, <3>5 DEF At
  <2>5. CASE p # 0
    <3> DEFINE k == p - 1
    <3>1. k \in 0 .. 3 /\ Head(todo) = ReadSteps(r)[k + 1]
      BY <2>3, <2>5
    <3>2. k # 0 => Reading(k, r)
      BY <1>4, <2>1, <2>5 DEF At, WritesFunctions
    <3>3. Reading(k + 1, r)' /\ WordOnWay'
      <4> HIDE DEF k
      <4>1. QED BY <1>1, <3>1, <3>2, ReadingGoesOn
    <3>4. Doubtful(command) \/ Put(r, v)
      <4>1. CASE p = 1
        <5>1. Head(todo) = Word(0, 2)
          BY <2>2, <3>1, <4>1, ReadStepsAre DEF Trigger
        <5>2. spi = NoWord
          BY <5>1, WordSent
        <5>3. QED BY <1>4, <2>1, <4>1, <5>2 DEF At, Written, Carries, WritesFunctions
      <4>2. CASE p # 1
        BY <1>4, <2>1, <2>5, <4>2 DEF At, WritesFunctions
      <4>3. QED BY <4>1, <4>2
    <3>5. Reading((p + 1) - 1, command.register)'
      BY <1>1, <2>1, <2>3, <3>3
    <3>6. (Doubtful(command) \/ Put(command.register, command.value))'
      BY <1>1, <2>1, <3>4 DEF Doubtful, Put
    <3>7. QED BY <1>1, <1>4, <2>1, <2>3, <2>5, <3>3, <3>5, <3>6 DEF At
  <2>6. QED BY <2>4, <2>5
<1>5. CASE WritesFunctions(command)
  <2>1. /\ Count(command) \in 1 .. 12 /\ Len(StepsOf(command)) = 14 * Count(command)
        /\ \A n \in 1 .. Count(command), s \in 1 .. 14 :
             StepsOf(command)[14 * (n - 1) + s]
               = FunctionSteps(FieldAt(command, n), ValueAt(command, n))[s]
    BY <1>1, <1>5, FunctionCommands
  <2>2. PICK n \in 1 .. Count(command), s \in 0 .. 13 : Hand(p, n, s)
    BY <1>1, <1>2, <1>5, <2>1, FunctionAtHand
  <2>3. Head(todo) = FunctionSteps(FieldAt(command, n), ValueAt(command, n))[s + 1]
    <3>1. p + 1 = 14 * (n - 1) + (s + 1) /\ s + 1 \in 1 .. 14
      BY <2>1, <2>2 DEF Hand
    <3>2. QED BY <1>2, <2>1, <3>1
  <2>4. /\ WritingAt(s + 1, FieldAt(command, n), ValueAt(command, n))'
        /\ Contents(n, s + 1)' /\ WordOnWay'
    BY <1>5, <2>2, <2>3, FunctionGoesOn DEF Hand
  <2>5. p + 1 = 14 * (n - 1) + (s + 1) /\ s + 1 \in 1 .. 14
    BY <2>1, <2>2 DEF Hand
  <2>6. n \in 1 .. Count(command') /\ WritesFunctions(command')
    BY <1>1, <1>5
  <2>7. QED BY <2>4, <2>5, <2>6 DEF At
<1>6. CASE command.kind = "Reset"
  BY <1>1, <1>2, <1>6, OtherCommands
<1>7. QED BY <1>1, <1>3, <1>4, <1>5, <1>6, OtherCommands DEF WritesFunctions

LEMMA StepKeeps ==
    ASSUME RegistersInv, StepTaken
    PROVE  RegistersInv'
<1>1. Types /\ WordOnWay /\ Underway
  BY DEF RegistersInv
<1>2. /\ todo # <<>> /\ Advance
      /\ regs' = regs /\ readout' = readout /\ port' = port /\ got' \in {got, port}
      /\ command' = command /\ unsure' = unsure
  BY StepLeaves
<1>3. PICK p \in 0 .. Len(StepsOf(command)) : RestFrom(p) /\ At(p)
  BY <1>1, <1>2 DEF Types, Underway
<1>4. At(p + 1)' /\ WordOnWay'
  BY <1>1, <1>3, AtAdvances
<1>5. /\ p + 1 \in 0 .. Len(StepsOf(command')) /\ RestFrom(p + 1)'
      /\ todo' \in Seq(Steps) /\ result' \in {"none", "ok"}
      /\ result' = "none" <=> todo' # <<>>
  BY <1>1, <1>2, <1>3, Advanced
<1>6. Types'
  <2>1. got' \in Words
    BY <1>1, <1>2 DEF Types
  <2>2. result' \in Results
    BY <1>5 DEF Results
  <2> HIDE DEF Words
  <2>3. QED BY <1>1, <1>2, <1>5, <2>1, <2>2 DEF Types
<1>7. Underway'
  <2>1. PICK q : q = p + 1
    OBVIOUS
  <2>2. q \in 0 .. Len(StepsOf(command')) /\ RestFrom(q)' /\ At(q)'
    BY <1>4, <1>5, <2>1
  <2>3. QED BY <2>2 DEF Underway
<1>8. Refused'
  BY <1>5 DEF Refused
<1>9. QED BY <1>4, <1>6, <1>7, <1>8 DEF RegistersInv

-------------------------------------------------------------------------------
(***************************************************************************)
(* A command ends before its last step                                     *)
(***************************************************************************)
\* What a command that is cut leaves is for the one that follows.
LEMMA AbandonKeeps ==
    ASSUME RegistersInv, NEW r \in Results \ {"none", "ok"}, Abandon(r), UNCHANGED afe, Refused'
    PROVE  RegistersInv'
<1>1. /\ todo' = <<>> /\ result' = r
      /\ UNCHANGED <<regs, readout, port, spi, command, got, unsure>>
  BY DEF Abandon, afe
<1>2. Types'
  <2>1. <<>> \in Seq(Steps)
    <3> HIDE DEF Steps
    <3>1. QED OBVIOUS
  <2>2. QED BY <1>1, <2>1 DEF RegistersInv, Types
<1>3. WordOnWay'
  BY <1>1 DEF RegistersInv, WordOnWay
<1>4. Underway'
  BY <1>1 DEF Underway
<1>5. QED BY <1>2, <1>3, <1>4 DEF RegistersInv

LEMMA CutKeeps ==
    ASSUME RegistersInv, TimeOut \/ Restart
    PROVE  RegistersInv'
<1>1. PICK r \in {"Timeout", "Restarted"} : Abandon(r) /\ UNCHANGED afe
  BY DEF TimeOut, Restart
<1>2. result' = r /\ r \in Results \ {"none", "ok"}
  BY <1>1 DEF Abandon, Results
<1>3. Refused'
  BY <1>1, <1>2 DEF Refused
<1>4. QED BY <1>1, <1>2, <1>3, AbandonKeeps

\* Only the first step of a function is a check.
LEMMA ReadChecksNothing ==
    ASSUME NEW r \in Nat, NEW k \in 1 .. 4
    PROVE  ReadSteps(r)[k].step # "check"
<1>1. /\ Trigger.step # "check" /\ Word(r, 0).step # "check"
      /\ Fetch.step # "check" /\ Idle.step # "check"
  BY DEF Trigger, Word, Fetch, Idle
<1>2. ReadSteps(r)[k] \in {Trigger, Word(r, 0), Fetch, Idle}
  BY ReadStepsAre
<1>3. QED BY <1>1, <1>2

LEMMA CheckIsFirst ==
    ASSUME NEW f \in AFE_FUNCTIONS, f.register \in Nat, NEW v \in Nat, NEW s \in 0 .. 13,
           FunctionSteps(f, v)[s + 1].step = "check"
    PROVE  s = 0
<1> DEFINE steps == FunctionSteps(f, v)
<1>1. /\ steps[6] = Modify(f, v)
      /\ \A k \in 2 .. 5 : steps[k] = ReadSteps(f.register)[k - 1]
      /\ \A k \in 7 .. 10 : steps[k] = ReadSteps(f.register)[k - 6]
      /\ \A k \in 11 .. 14 : steps[k] = ReadSteps(f.register)[k - 10]
  BY FunctionStepsAre
<1> HIDE DEF steps
<1>2. steps[s + 1].step = "check"
  BY DEF steps
<1>3. steps[6].step # "check"
  BY <1>1 DEF Modify
<1>4. ASSUME NEW k \in 1 .. 4, s \in {k, k + 5, k + 9}
      PROVE  FALSE
  <2>1. steps[s + 1] = ReadSteps(f.register)[k]
    BY <1>1, <1>4
  <2>2. QED BY <1>2, <2>1, ReadChecksNothing
<1>5. s = 0 \/ s = 5 \/ \E k \in 1 .. 4 : s \in {k, k + 5, k + 9}
  OBVIOUS
<1>6. QED BY <1>2, <1>3, <1>4, <1>5

LEMMA CheckRefuses ==
    ASSUME RegistersInv, CheckFails
    PROVE  RegistersInv'
<1>1. Types /\ Underway /\ command \in Commands
  BY DEF RegistersInv, Types
<1>2. PICK error : error = CheckError(Head(todo).field, Head(todo).value)
  OBVIOUS
<1>3. /\ todo # <<>> /\ Head(todo).step = "check"
      /\ error # "none" /\ Abandon(error) /\ UNCHANGED afe
  BY <1>2 DEF CheckFails, Step
<1>4. error \in Results \ {"none", "ok"} /\ result \in {"none", "ok"}
  BY <1>1, <1>2, <1>3 DEF CheckError, Results, Types
<1>5. PICK p \in 0 .. Len(StepsOf(command)) : RestFrom(p) /\ At(p)
  BY <1>1, <1>4 DEF Underway
<1>6. /\ Len(StepsOf(command)) \in Nat /\ p < Len(StepsOf(command))
      /\ Head(todo) = StepsOf(command)[p + 1]
  BY <1>1, <1>3, <1>5, HeadIs, StepsOfTyped
<1>7. WritesFunctions(command)
  <2>1. CASE command.kind = "Read"
    <3>1. PICK r \in Nat : StepsOf(command) = ReadSteps(r)
      BY <1>1, <2>1, OtherCommands, RegistersTyped
    <3>2. Len(ReadSteps(r)) = 4
      BY ReadStepsAre
    <3>3. p + 1 \in 1 .. 4
      BY <1>6, <3>1, <3>2
    <3>4. QED BY <1>3, <1>6, <3>1, <3>3, ReadChecksNothing
  <2>2. CASE command.kind = "Write"
    <3>1. PICK r \in Nat, v \in Words : StepsOf(command) = WriteSteps(Word(r, v))
      BY <1>1, <2>2, OtherCommands, RegistersTyped
    <3> DEFINE steps == WriteSteps(Word(r, v))
    <3>2. v \in Nat
      BY DEF Words
    <3>3. /\ Len(steps) = 5 /\ steps[1] = Word(r, v)
          /\ \A k \in 2 .. 5 : steps[k] = ReadSteps(r)[k - 1]
      BY <3>2, WriteStepsAre
    <3> HIDE DEF steps
    <3>4. p + 1 \in 1 .. 5 /\ Head(todo) = steps[p + 1]
      BY <1>6, <3>1, <3>3 DEF steps
    <3>5. CASE p = 0
      BY <1>3, <3>3, <3>4, <3>5 DEF Word
    <3>6. CASE p # 0
      <4>1. p \in 1 .. 4 /\ Head(todo) = ReadSteps(r)[p]
        BY <3>3, <3>4, <3>6
      <4>2. QED BY <1>3, <4>1, ReadChecksNothing
    <3>7. QED BY <3>5, <3>6
  <2>3. CASE command.kind = "Reset"
    BY <1>1, <1>6, <2>3, OtherCommands
  <2>4. QED BY <1>1, <2>1, <2>2, <2>3, OtherCommands DEF WritesFunctions
<1>8. /\ Count(command) \in 1 .. 12 /\ Len(StepsOf(command)) = 14 * Count(command)
      /\ \A n \in 1 .. Count(command) :
           /\ FieldAt(command, n) \in AFE_FUNCTIONS /\ FieldAt(command, n).register \in Addresses
           /\ ValueAt(command, n) \in Nat
           /\ \A s \in 1 .. 14 :
                StepsOf(command)[14 * (n - 1) + s]
                  = FunctionSteps(FieldAt(command, n), ValueAt(command, n))[s]
  BY <1>1, <1>7, FunctionCommands
<1>9. PICK n \in 1 .. Count(command), s \in 0 .. 13 : Hand(p, n, s)
  BY <1>1, <1>5, <1>6, <1>7, <1>8, FunctionAtHand
<1> DEFINE f == FieldAt(command, n)
           v == ValueAt(command, n)
<1>10. Head(todo) = FunctionSteps(f, v)[s + 1]
  <2>1. p + 1 = 14 * (n - 1) + (s + 1) /\ s + 1 \in 1 .. 14
    BY <1>8, <1>9 DEF Hand
  <2>2. QED BY <1>6, <1>8, <2>1
<1>11. f \in AFE_FUNCTIONS /\ f.register \in Nat /\ v \in Nat
  BY <1>8, RegistersTyped
<1> HIDE DEF f, v
<1>12. s = 0
  BY <1>3, <1>10, <1>11, CheckIsFirst
<1>13. (unsure \/ Settled) /\ Contents(n, 0)
  BY <1>9, <1>12 DEF Hand
<1>14. command.kind = "Apply" => v \notin Allowed(f)
  <2>1. Head(todo) = Check(f, v)
    <3>1. FunctionSteps(f, v)[1] = Check(f, v)
      BY <1>11, FunctionStepsAre
    <3>2. s + 1 = 1
      BY <1>12
    <3>3. QED BY <1>10, <3>1, <3>2
  <2>2. error = CheckError(f, v)
    BY <1>2, <2>1 DEF Check
  <2>3. command.kind = "Apply" => WellFormed(f)
    BY <1>8, ProfileTable DEF f, FieldAt, Count
  <2>4. QED BY <1>3, <2>2, <2>3 DEF CheckError
<1>15. Refused'
  <2>1. /\ UNCHANGED <<regs, readout, spi, command, unsure>>
        /\ f = FieldAt(command', n) /\ v = ValueAt(command', n) /\ n \in 1 .. Count(command')
    BY <1>3 DEF Abandon, afe, f, v
  <2>2. Contents(n, 0)'
    BY <1>13, <2>1, ContentsStay
  <2>3. (unsure \/ Settled)'
    BY <1>13, <2>1 DEF Settled, Carries
  <2>4. command'.kind = "Apply" => v \notin Allowed(f)
    BY <1>14, <2>1
  <2>5. QED BY <2>1, <2>2, <2>3, <2>4 DEF Refused
<1>16. QED BY <1>3, <1>4, <1>15, AbandonKeeps

-------------------------------------------------------------------------------
(***************************************************************************)
(* A command begins                                                        *)
(***************************************************************************)
\* Where the answer ok finds the AFE.
LEMMA AtEnd ==
    ASSUME RegistersInv, result = "ok"
    PROVE  /\ command.kind = "Read" => Reading(4, command.register)
           /\ command.kind = "Write" =>
                /\ Reading(4, command.register)
                /\ Doubtful(command) \/ Put(command.register, command.value)
           /\ command.kind = "Reset" => Settled
           /\ WritesFunctions(command) =>
                /\ Reading(4, FieldAt(command, Count(command)).register)
                /\ Contents(Count(command), 14)
<1>1. Types /\ Underway /\ command \in Commands /\ Len(todo) = 0
  BY DEF RegistersInv, Types
<1>2. PICK p \in 0 .. Len(StepsOf(command)) : RestFrom(p) /\ At(p)
  BY <1>1 DEF Underway
<1>3. p = Len(StepsOf(command))
  BY <1>1, <1>2, StepsOfTyped DEF RestFrom
<1>4. CASE command.kind = "Read"
  <2>1. PICK r \in Nat : StepsOf(command) = ReadSteps(r)
    BY <1>1, <1>4, OtherCommands, RegistersTyped
  <2>2. p = 4
    BY <1>3, <2>1, ReadStepsAre
  <2>3. QED BY <1>2, <1>4, <2>2 DEF At, WritesFunctions
<1>5. CASE command.kind = "Write"
  <2>1. PICK r \in Nat, v \in Words : StepsOf(command) = WriteSteps(Word(r, v))
    BY <1>1, <1>5, OtherCommands, RegistersTyped
  <2>2. v \in Nat
    BY DEF Words
  <2>3. Len(WriteSteps(Word(r, v))) = 5
    BY <2>2, WriteStepsAre
  <2>4. p = 5
    BY <1>3, <2>1, <2>3
  <2>5. QED BY <1>2, <1>5, <2>4 DEF At, WritesFunctions
<1>6. CASE WritesFunctions(command)
  <2>1. Count(command) \in 1 .. 12 /\ p = 14 * Count(command)
    BY <1>1, <1>3, <1>6, FunctionCommands
  <2>2. PICK n \in 1 .. Count(command), s \in 1 .. 14 :
          /\ p = 14 * (n - 1) + s
          /\ WritingAt(s, FieldAt(command, n), ValueAt(command, n))
          /\ Contents(n, s)
    BY <1>2, <1>6, <2>1, SMTT(30) DEF At, WritesFunctions
  <2>3. s = 14 /\ n = Count(command)
    BY <2>1, <2>2, SMTT(30)
  <2>4. Reading(4, FieldAt(command, n).register)
    BY <2>2, <2>3 DEF WritingAt
  <2>5. QED BY <1>6, <2>2, <2>3, <2>4 DEF WritesFunctions
<1>7. CASE command.kind = "Reset"
  <2>1. Begun
    BY <1>2, <1>7 DEF At, WritesFunctions
  <2>2. QED BY <1>1, <1>7, <2>1 DEF Begun, Types, WritesFunctions
<1>8. QED BY <1>1, <1>4, <1>5, <1>6, <1>7, OtherCommands DEF WritesFunctions

\* A command that was not cut leaves the AFE in its normal mode.
LEMMA EndsSettled ==
    ASSUME RegistersInv, todo = <<>>
    PROVE  UnsureNow \/ Settled
<1>1. Types /\ Refused /\ command \in Commands
  BY DEF RegistersInv, Types
<1>2. result \in Results \ {"none"}
  BY <1>1 DEF Types
<1>3. CASE result = "ok"
  BY <1>1, <1>3, AtEnd, OtherCommands DEF Reading, WritesFunctions
<1>4. CASE result \in {"Timeout", "Restarted"}
  BY <1>4 DEF UnsureNow
<1>5. CASE result \in {"InvalidValue", "InvalidFunctionField"}
  BY <1>1, <1>5 DEF Refused, UnsureNow
<1>6. QED BY <1>2, <1>3, <1>4, <1>5 DEF Results

\* What every command begins with.
Starting(c) ==
    /\ command' = c /\ todo' = StepsOf(c) /\ got' = 0
    /\ result' \in {"none", "ok"} /\ (result' = "none" <=> todo' # <<>>)
    /\ unsure' \in BOOLEAN /\ (c.kind \in {"Apply", "Reset"} => ~unsure')

LEMMA StartKeeps ==
    ASSUME RegistersInv, NEW c \in Commands, Starting(c),
           regs' \in [Registers -> Words], readout' \in BOOLEAN, port' \in Words,
           WordOnWay', Begun'
    PROVE  RegistersInv'
<1>1. command' = c /\ todo' = StepsOf(c) /\ StepsOf(c) \in Seq(Steps)
  BY StepsOfTyped DEF Starting
<1>2. Types'
  <2>1. 0 \in Words
    BY ModeWords
  <2> HIDE DEF Words, Steps, Commands
  <2>2. QED BY <1>1, <2>1 DEF Types, Starting, Results
<1>3. Underway'
  <2>1. At(0)'
    BY DEF At
  <2>2. /\ Len(StepsOf(c)) \in Nat /\ Len(todo') = Len(StepsOf(c)) - 0
        /\ \A i \in 1 .. Len(todo') : todo'[i] = StepsOf(c)[0 + i]
    BY <1>1
  <2>3. RestFrom(0)'
    BY <1>1, <2>2 DEF RestFrom
  <2>4. 0 \in 0 .. Len(StepsOf(command'))
    BY <1>1, <2>2
  <2>5. QED BY <2>1, <2>3, <2>4 DEF Underway
<1>4. Refused'
  BY DEF Refused, Starting
<1>5. QED BY <1>2, <1>3, <1>4 DEF RegistersInv

LEMMA AfeUntouched ==
    ASSUME RegistersInv, todo = <<>>, unsure' = UnsureNow, UNCHANGED afe,
           command'.kind # "Apply"
    PROVE  /\ regs' \in [Registers -> Words] /\ readout' \in BOOLEAN /\ port' \in Words
           /\ WordOnWay' /\ Begun' /\ unsure' \in BOOLEAN
<1>1. regs' = regs /\ readout' = readout /\ port' = port /\ spi' = spi
  BY DEF afe
<1>2. regs' \in [Registers -> Words] /\ readout' \in BOOLEAN /\ port' \in Words /\ WordOnWay'
  BY <1>1 DEF RegistersInv, Types, WordOnWay
<1>3. unsure' \in BOOLEAN
  BY DEF RegistersInv, Types, UnsureNow
<1>4. unsure' \/ Settled'
  BY <1>1, EndsSettled DEF Settled, Carries
<1>5. QED BY <1>2, <1>3, <1>4 DEF Begun

LEMMA AfeReset ==
    ASSUME NEW c \in Commands, command' = c, ResetAfe
    PROVE  /\ regs' \in [Registers -> Words] /\ readout' \in BOOLEAN /\ port' \in Words
           /\ WordOnWay' /\ Begun'
<1>1. regs' = Zeroes /\ readout' = FALSE /\ port' = 0 /\ spi' = NoWord
  BY DEF ResetAfe
<1>2. 0 \in Words /\ regs' \in [Registers -> Words]
  BY <1>1, ModeWords DEF Zeroes
<1>3. Settled' /\ WordOnWay'
  BY <1>1 DEF Settled, WordOnWay
<1>4. ASSUME c.kind = "Apply", NEW i \in 1 .. Count(c)
      PROVE  Holds(FieldAt(c, i), 0)'
  <2>1. WritesFunctions(c) /\ Count(c) = 12
    BY <1>4, ProfileTable DEF WritesFunctions, Count
  <2>2. FieldAt(c, i) = ProfileFields[i]
    BY <1>4 DEF FieldAt
  <2>3. /\ FieldAt(c, i) \in AFE_FUNCTIONS /\ WellFormed(FieldAt(c, i))
        /\ FieldAt(c, i).register \in Registers /\ FieldAt(c, i).register # 0
    <3>1. i \in 1 .. 12
      BY <2>1
    <3>2. /\ FieldAt(c, i) \in AFE_FUNCTIONS /\ WellFormed(FieldAt(c, i))
          /\ FieldAt(c, i).register # 0
      BY <2>2, <3>1, ProfileTable
    <3>3. FieldAt(c, i).register \in Addresses
      BY <2>1, FunctionCommands
    <3>4. QED BY <3>2, <3>3 DEF Addresses
  <2> DEFINE f == FieldAt(c, i)
  <2> HIDE DEF f
  <2>4. regs'[f.register] = 0 /\ Extract(0, f) = 0
    BY <1>1, <2>3, ExtractZero DEF Zeroes, f
  <2>5. QED BY <2>3, <2>4 DEF Holds, f
<1>5. Begun'
  BY <1>3, <1>4 DEF Begun
<1>6. QED BY <1>1, <1>2, <1>3, <1>5, ModeWords

\* No command but the reset has no steps.
LEMMA HasSteps ==
    ASSUME NEW c \in Commands, c.kind # "Reset"
    PROVE  StepsOf(c) # <<>>
<1>1. Len(StepsOf(c)) # 0
  <2>1. CASE c.kind = "Read"
    <3>1. PICK r \in Nat : StepsOf(c) = ReadSteps(r)
      BY <2>1, OtherCommands, RegistersTyped
    <3>2. Len(ReadSteps(r)) = 4
      BY ReadStepsAre
    <3>3. QED BY <3>1, <3>2
  <2>2. CASE c.kind = "Write"
    <3>1. PICK r \in Nat, v \in Words : StepsOf(c) = WriteSteps(Word(r, v))
      BY <2>2, OtherCommands, RegistersTyped
    <3>2. v \in Nat
      BY DEF Words
    <3>3. Len(WriteSteps(Word(r, v))) = 5
      BY <3>2, WriteStepsAre
    <3>4. QED BY <3>1, <3>3
  <2>3. CASE WritesFunctions(c)
    <3>1. Count(c) \in 1 .. 12 /\ Len(StepsOf(c)) = 14 * Count(c)
      BY <2>3, FunctionCommands
    <3>2. QED BY <3>1
  <2>4. QED BY <2>1, <2>2, <2>3, OtherCommands DEF WritesFunctions
<1>2. QED BY <1>1

\* A command that leaves it to the AFE which words to take.
LEMMA BeginKeeps ==
    ASSUME RegistersInv, ReadRegister \/ WriteRegister \/ WriteFunction
    PROVE  RegistersInv'
<1>1. PICK c \in Commands :
        Start(c, StepsOf(c)) /\ c.kind \notin {"Apply", "Reset"}
  <2>1. CASE ReadRegister
    <3>1. PICK r \in Addresses : Start([kind |-> "Read", register |-> r], ReadSteps(r))
      BY <2>1 DEF ReadRegister, Addresses
    <3> DEFINE c == [kind |-> "Read", register |-> r]
    <3>2. c \in Commands /\ c.kind = "Read" /\ StepsOf(c) = ReadSteps(r)
      BY DEF Commands, StepsOf
    <3> HIDE DEF c
    <3>3. QED BY <3>1, <3>2 DEF c
  <2>2. CASE WriteRegister
    <3>1. PICK w \in RawWrites :
            Start([kind |-> "Write", register |-> w.register, value |-> w.value],
                  WriteSteps(Word(w.register, w.value)))
      BY <2>2 DEF WriteRegister
    <3> DEFINE c == [kind |-> "Write", register |-> w.register, value |-> w.value]
    <3>2. /\ c \in Commands /\ c.kind = "Write"
          /\ StepsOf(c) = WriteSteps(Word(w.register, w.value))
      BY DEF Commands, StepsOf
    <3> HIDE DEF c
    <3>3. QED BY <3>1, <3>2 DEF c
  <2>3. CASE WriteFunction
    <3>1. PICK f \in Functions, v \in Values :
            Start([kind |-> "Function", field |-> f, value |-> v], FunctionSteps(f, v))
      BY <2>3 DEF WriteFunction
    <3> DEFINE c == [kind |-> "Function", field |-> f, value |-> v]
    <3>2. c \in Commands /\ c.kind = "Function" /\ StepsOf(c) = FunctionSteps(f, v)
      BY DEF Commands, StepsOf
    <3> HIDE DEF c
    <3>3. QED BY <3>1, <3>2 DEF c
  <2>4. QED BY <2>1, <2>2, <2>3
<1>2. /\ todo = <<>> /\ command' = c /\ todo' = StepsOf(c) /\ result' = "none" /\ got' = 0
      /\ unsure' = UnsureNow /\ UNCHANGED afe /\ StepsOf(c) # <<>>
  BY <1>1, HasSteps DEF Start, ReadRegister, WriteRegister, WriteFunction
<1>3. /\ regs' \in [Registers -> Words] /\ readout' \in BOOLEAN /\ port' \in Words
      /\ WordOnWay' /\ Begun' /\ unsure' \in BOOLEAN
  BY <1>1, <1>2, AfeUntouched
<1>4. Starting(c)
  BY <1>1, <1>2, <1>3 DEF Starting
<1>5. QED BY <1>3, <1>4, StartKeeps

LEMMA ResetKeeps ==
    ASSUME RegistersInv, Reset \/ ApplyConfigureFrontend
    PROVE  RegistersInv'
<1>1. PICK c \in Commands : Starting(c) /\ ResetAfe
  <2>1. CASE Reset
    <3>1. DoReset \in Commands /\ DoReset.kind = "Reset" /\ StepsOf(DoReset) = <<>>
      BY DEF Commands, DoReset, StepsOf
    <3>2. Starting(DoReset) /\ ResetAfe
      BY <2>1, <3>1 DEF Reset, Starting
    <3>3. QED BY <3>1, <3>2
  <2>2. CASE ApplyConfigureFrontend
    <3>1. PICK p \in Profiles : Start([kind |-> "Apply", profile |-> p], ProfileSteps[p])
      BY <2>2 DEF ApplyConfigureFrontend
    <3> DEFINE c == [kind |-> "Apply", profile |-> p]
    <3>2. c \in Commands /\ c.kind = "Apply" /\ StepsOf(c) = ProfileSteps[p]
      BY DEF Commands, StepsOf
    <3> HIDE DEF c
    <3>3. Starting(c) /\ ResetAfe
      BY <2>2, <3>1, <3>2, HasSteps DEF ApplyConfigureFrontend, Start, Starting, c
    <3>4. QED BY <3>2, <3>3
  <2>3. QED BY <2>1, <2>2
<1>2. command' = c
  BY <1>1 DEF Starting
<1>3. /\ regs' \in [Registers -> Words] /\ readout' \in BOOLEAN /\ port' \in Words
      /\ WordOnWay' /\ Begun'
  BY <1>1, <1>2, AfeReset
<1>4. QED BY <1>1, <1>3, StartKeeps

-------------------------------------------------------------------------------
(***************************************************************************)
(* The invariant holds                                                     *)
(***************************************************************************)
LEMMA Initially == Init => RegistersInv
<1> SUFFICES ASSUME Init
             PROVE  RegistersInv
  OBVIOUS
<1>1. /\ regs = Zeroes /\ readout = FALSE /\ port = 0 /\ spi = NoWord
      /\ command = DoReset /\ todo = <<>> /\ got = 0 /\ result = "ok" /\ unsure = FALSE
  BY DEF Init
<1>2. command \in Commands /\ command.kind = "Reset" /\ StepsOf(command) = <<>>
  BY <1>1 DEF Commands, DoReset, StepsOf
<1>3. 0 \in Words /\ regs \in [Registers -> Words] /\ <<>> \in Seq(Steps)
  <2>1. <<>> \in Seq(Steps)
    <3> HIDE DEF Steps
    <3>1. QED OBVIOUS
  <2>2. QED BY <1>1, <2>1, ModeWords DEF Zeroes
<1>4. Types
  <2> HIDE DEF Words, Steps, Commands
  <2>1. QED BY <1>1, <1>2, <1>3 DEF Types, Results
<1>5. WordOnWay /\ Refused
  BY <1>1 DEF WordOnWay, Refused
<1>6. RestFrom(0) /\ At(0)
  BY <1>1, <1>2 DEF RestFrom, At, Begun, Settled
<1>7. Underway
  BY <1>2, <1>6 DEF Underway
<1>8. QED BY <1>4, <1>5, <1>7 DEF RegistersInv

LEMMA Inductive == RegistersInv /\ [Next]_vars => RegistersInv'
<1> SUFFICES ASSUME RegistersInv, [Next]_vars
             PROVE  RegistersInv'
  OBVIOUS
<1>1. CASE ReadRegister \/ WriteRegister \/ WriteFunction
  BY <1>1, BeginKeeps
<1>2. CASE Reset \/ ApplyConfigureFrontend
  BY <1>2, ResetKeeps
<1>3. CASE StepTaken
  BY <1>3, StepKeeps
<1>4. CASE CheckFails
  BY <1>4, CheckRefuses
<1>5. CASE TimeOut \/ Restart
  BY <1>5, CutKeeps
<1>6. CASE AfeTakesWord
  BY <1>6, TypesTake, WordOnWayTakes, UnderwayTakes, RefusedTakes DEF RegistersInv
<1>7. CASE UNCHANGED vars
  BY <1>7 DEF vars, afe, RegistersInv, Types, WordOnWay, Underway, Refused, RestFrom, At, Begun,
              Settled, Carries, Reading, Doubtful, Written, Put, WritingAt, Pulsed, Modified,
              Contents, Holds
<1>8. QED BY <1>1, <1>2, <1>3, <1>4, <1>5, <1>6, <1>7 DEF Next, StepTaken

LEMMA Invariance == Spec => []RegistersInv
BY Initially, Inductive, PTL DEF Spec

-------------------------------------------------------------------------------
(***************************************************************************)
(* The theorems                                                            *)
(***************************************************************************)
\* The registers of the AFE hold 16-bit words, read_register reads one, and a word on its way
\* is for a register that a command may name or for the mode switch.
THEOREM Typing == Spec => []TypeOK
<1>1. RegistersInv => TypeOK
  <2>1. SUFFICES ASSUME RegistersInv
                 PROVE  TypeOK
    OBVIOUS
  <2>2. Types /\ WordOnWay /\ command \in Commands
    BY <2>1 DEF RegistersInv, Types
  <2> HIDE DEF Words, Steps, Commands
  <2>3. QED BY <2>2, OtherCommands DEF TypeOK, Types, WordOnWay, Addresses
<1>2. QED
  BY <1>1, Invariance, PTL

LEMMA TakenWordIsOwn ==
    ASSUME RegistersInv, AfeTakesWord, regs' # regs
    PROVE  \/ regs' = Zeroes /\ WritesRegister0(spi.by)
           \/ /\ spi.by.kind = "Write"
              /\ regs' = [regs EXCEPT ![spi.by.register] = spi.by.value]
           \/ \E f \in OwnFields(spi.by) :
                /\ f.register # 0
                /\ \A r \in Registers \ {f.register} : regs'[r] = regs[r]
                /\ \A g \in Others(f.register, f) :
                     Extract(regs'[f.register], g) = Extract(regs[f.register], g)
<1>1. regs \in [Registers -> Words] /\ WordOnWay /\ spi # NoWord
  BY DEF RegistersInv, Types, AfeTakesWord
<1>2. CASE spi.register = 0
  BY <1>1, <1>2, ModeSwitches DEF WordOnWay
<1>3. CASE spi.register # 0
  <2>1. ~readout /\ regs' = [regs EXCEPT ![spi.register] = spi.value]
    BY <1>3 DEF AfeTakesWord
  <2>2. CASE spi.by.kind = "Write" /\ spi.register = spi.by.register /\ spi.value = spi.by.value
    BY <2>1, <2>2
  <2>3. CASE \E f \in OwnFields(spi.by), v \in Nat :
               /\ WellFormed(f) /\ spi.register = f.register
               /\ spi.value = Replace(regs[f.register], f, v)
    <3>1. PICK f \in OwnFields(spi.by), v \in Nat :
            /\ WellFormed(f) /\ spi.register = f.register
            /\ spi.value = Replace(regs[f.register], f, v)
      BY <2>3
    <3>2. spi.by \in Commands
      BY <1>1 DEF WordOnWay
    <3>3. f \in AFE_FUNCTIONS /\ f.register \in Registers
      BY <1>3, <3>1, <3>2, WriterWrites DEF Addresses
    <3> DEFINE word == Replace(regs[f.register], f, v)
    <3>4. regs' = [regs EXCEPT ![f.register] = word]
      BY <2>1, <3>1
    <3>5. ASSUME NEW g \in Others(f.register, f)
          PROVE  Extract(word, g) = Extract(regs[f.register], g)
      BY <1>1, <3>1, <3>3, <3>5, ReplaceKeepsOthers DEF Others
    <3> HIDE DEF word
    <3>6. /\ regs'[f.register] = word
          /\ \A r \in Registers \ {f.register} : regs'[r] = regs[r]
      BY <1>1, <3>3, <3>4
    <3>7. f.register # 0
      BY <1>3, <3>1
    <3>8. QED BY <3>5, <3>6, <3>7
  <2>4. QED BY <1>1, <1>3, <2>1, <2>2, <2>3 DEF WordOnWay
<1>4. QED BY <1>2, <1>3

\* replace_afe_function_bits changes no bit of another function, for any two of the table outside
\* register 0, and no word of read_register sets the register that it addresses, whatever was
\* cut before it: only resets, direct writes and the written field itself change a register.
\* The words that commands write to register 0 may reset it, SOFTWARE_RESET or not, and nothing
\* else.
THEOREM OnlyOwnFields == Spec => OnlyOwnField
<1> DEFINE Change ==
             regs' # regs =>
                 \/ regs' = Zeroes /\ command'.kind \in {"Reset", "Apply"}
                 \/ regs' = Zeroes /\ WritesRegister0(spi.by)
                 \/ /\ spi.by.kind = "Write"
                    /\ regs' = [regs EXCEPT ![spi.by.register] = spi.by.value]
                 \/ \E f \in OwnFields(spi.by) :
                      /\ f.register # 0
                      /\ \A r \in Registers \ {f.register} : regs'[r] = regs[r]
                      /\ \A g \in Others(f.register, f) :
                           Extract(regs'[f.register], g) = Extract(regs[f.register], g)
<1>1. RegistersInv /\ [Next]_vars => [Change]_vars
  <2>1. SUFFICES ASSUME RegistersInv, Next
                 PROVE  Change
    OBVIOUS
  <2>2. CASE AfeTakesWord
    BY <2>1, <2>2, TakenWordIsOwn
  <2>3. CASE Reset
    BY <2>3 DEF Reset, ResetAfe, DoReset
  <2>4. CASE ApplyConfigureFrontend
    <3>1. regs' = Zeroes /\ command'.kind = "Apply"
      BY <2>4 DEF ApplyConfigureFrontend, ResetAfe, Start
    <3>2. QED BY <3>1
  <2>5. CASE Next /\ ~AfeTakesWord /\ ~Reset /\ ~ApplyConfigureFrontend
    <3>1. CASE StepTaken
      BY <3>1, StepLeaves
    <3>2. CASE ~StepTaken
      BY <2>5, <3>2 DEF Next, StepTaken, ReadRegister, WriteRegister, WriteFunction, CheckFails,
                        TimeOut, Restart, afe
    <3>3. QED BY <3>1, <3>2
  <2>6. QED BY <2>1, <2>2, <2>3, <2>4, <2>5
<1>2. QED
  BY <1>1, Invariance, PTL DEF Spec, OnlyOwnField

\* After an ok of read_register, write_register, write_afe_function or apply_configure_frontend
\* the AFE holds what was asked for, and for a read and the two writes the answer is what it
\* holds, whatever the commands before were and wherever they were cut. Only the direct write
\* needs that none was.
THEOREM OkIsWritten == Spec => []OkMeansWritten
<1>1. RegistersInv => OkMeansWritten
  <2>1. SUFFICES ASSUME RegistersInv, result = "ok"
                 PROVE  OkMeansWritten
    BY DEF OkMeansWritten
  <2>2. command \in Commands
    BY <2>1 DEF RegistersInv, Types
  <2>3. CASE command.kind = "Read"
    BY <2>1, <2>3, AtEnd DEF OkMeansWritten, Reading
  <2>4. CASE command.kind = "Write"
    BY <2>1, <2>4, AtEnd DEF OkMeansWritten, Reading, Doubtful
  <2>5. CASE command.kind = "Function"
    <3>1. /\ Count(command) = 1 /\ FieldAt(command, 1) = command.field
          /\ ValueAt(command, 1) = command.value /\ WritesFunctions(command)
      BY <2>5 DEF Count, FieldAt, ValueAt, WritesFunctions
    <3>2. Reading(4, command.field.register) /\ Contents(1, 14)
      BY <2>1, <3>1, AtEnd
    <3>3. /\ Holds(command.field, command.value)
          /\ command.field.register # 0 => got = regs[command.field.register]
      BY <3>1, <3>2 DEF Contents, Reading
    <3>4. command.field.register # 0 => Extract(got, command.field) = command.value
      BY <3>3 DEF Holds
    <3>5. QED BY <2>5, <3>3, <3>4 DEF OkMeansWritten
  <2>6. CASE command.kind = "Apply"
    <3>1. Count(command) = 12 /\ WritesFunctions(command)
      BY <2>6, ProfileTable DEF Count, WritesFunctions
    <3>2. Contents(12, 14)
      BY <2>1, <3>1, AtEnd
    <3>3. \A i \in 1 .. 12 : Holds(FieldAt(command, i), ValueAt(command, i))
      BY <3>1, <3>2 DEF Contents
    <3>4. \A i \in DOMAIN ProfileFields : Holds(ProfileFields[i], command.profile[i])
      BY <2>6, <3>3, ProfileTable DEF FieldAt, ValueAt
    <3>5. QED BY <2>6, <3>4 DEF OkMeansWritten
  <2>7. CASE command.kind = "Reset"
    BY <2>7 DEF OkMeansWritten
  <2>8. QED BY <2>2, <2>3, <2>4, <2>5, <2>6, <2>7, OtherCommands
<1>2. QED
  BY <1>1, Invariance, PTL

\* apply_staged_afe stops at the first value that validate_afe_function_value refuses: what it
\* wrote before stays, and nothing of that function or of those behind it has been written.
THEOREM FailedIsPrefix == Spec => []FailedApplyIsPrefix
<1>1. RegistersInv => FailedApplyIsPrefix
  <2>1. SUFFICES ASSUME RegistersInv, command.kind = "Apply", result = "InvalidValue"
                 PROVE  \E n \in DOMAIN ProfileFields :
                          /\ command.profile[n] \notin Allowed(ProfileFields[n])
                          /\ \A i \in DOMAIN ProfileFields :
                               IF i < n THEN Holds(ProfileFields[i], command.profile[i])
                               ELSE Holds(ProfileFields[i], 0)
    BY DEF FailedApplyIsPrefix
  <2>2. PICK n \in 1 .. Count(command) :
          ValueAt(command, n) \notin Allowed(FieldAt(command, n)) /\ Contents(n, 0)
    BY <2>1 DEF RegistersInv, Refused
  <2>3. /\ Count(command) = 12 /\ DOMAIN ProfileFields = 1 .. 12
        /\ \A i \in 1 .. 12 :
             FieldAt(command, i) = ProfileFields[i] /\ ValueAt(command, i) = command.profile[i]
    BY <2>1, ProfileTable DEF Count, FieldAt, ValueAt
  <2>4. \A i \in 1 .. 12 :
          IF i < n THEN Holds(ProfileFields[i], command.profile[i])
          ELSE Holds(ProfileFields[i], 0)
    BY <2>1, <2>2, <2>3 DEF Contents
  <2>5. QED BY <2>2, <2>3, <2>4
<1>2. QED
  BY <1>1, Invariance, PTL

===============================================================================
