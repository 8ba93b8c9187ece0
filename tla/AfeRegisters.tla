------------------------------ MODULE AfeRegisters ------------------------------
(***************************************************************************)
(* The registers of an AFE: AfeMmioBackend::read_register, write_register, *)
(* write_afe_function and the functions that a staged configuration        *)
(* writes, over the words they send to the AFE's control register, and the *)
(* table of the functions, the bit fields that have a name.                *)
(*                                                                         *)
(* The AFE is external. It has two modes: a word normally sets a register, *)
(* and in readout mode it puts the register's value where read_register    *)
(* finds it. Register 0 is not like the others: it is written in both      *)
(* modes and put out in neither, its bit REGISTER_READOUT_ENABLE is the    *)
(* mode, which AFE_SPI_TRIGGER_WORD turns on and the idle word off, and    *)
(* its bit SOFTWARE_RESET sets the registers to 0, as the reset line does. *)
(* One word at a time is on its way, and the AFE is busy until it has it.  *)
(*                                                                         *)
(* One AFE, since each has its own control register and its own words.     *)
(***************************************************************************)
EXTENDS Integers, SequencesExt

CONSTANTS
    Functions,   \* functions of the table that clients write
    Values,      \* values that they write to them
    RawWrites,   \* registers and values that they write directly
    Profiles     \* staged AFE records: the values of the functions of ProfileFields

(***************************************************************************)
(* The function table. A function is its bit field; no two have the same.  *)
(***************************************************************************)
Field(register, msb, lsb) == [register |-> register, msb |-> msb, lsb |-> lsb]
Flags(register, bits) == {Field(register, b, b) : b \in bits}

SOFTWARE_RESET == Field(0, 0, 0)
REGISTER_READOUT_ENABLE == Field(0, 1, 1)

PerChannel == {13, 15, 17, 19, 25, 27, 29, 31}

AFE_FUNCTIONS ==
    UNION {{SOFTWARE_RESET, REGISTER_READOUT_ENABLE},
           Flags(1, {0, 1, 10, 11, 13, 15}), {Field(1, 9, 2), Field(1, 12, 14)},
           Flags(2, {11, 12}), {Field(2, 10, 3), Field(2, 15, 13)},
           Flags(3, {8, 12, 15}), {Field(3, 7, 0), Field(3, 14, 13)},
           Flags(4, {1, 3, 4}), {Field(5, 13, 0)}, Flags(10, {8}),
           {Field(r, 9, 0) : r \in PerChannel}, {Field(r, 15, 11) : r \in PerChannel},
           Flags(21, {0}), {Field(21, 4, 1)}, Flags(33, {0}), {Field(33, 4, 1)},
           Flags(66, {15}), Flags(50, {10}),
           Flags(51, {4, 13}), {Field(51, 3, 1), Field(51, 7, 5)},
           Flags(52, {5, 8, 12, 15}),
           {Field(52, 4, 0), Field(52, 7, 6), Field(52, 10, 9), Field(52, 14, 13)},
           Flags(53, 10 .. 15), {Field(53, 7, 0)},
           Flags(54, {5, 6, 8, 9}), {Field(54, 4, 0), Field(54, 11, 10)},
           {Field(r, 4 * i + 3, 4 * i) : r \in {55, 56}, i \in 0 .. 3},
           {Field(57, 2 * i + 1, 2 * i) : i \in 0 .. 7},
           Flags(59, {7, 8, 9}), {Field(59, 3, 2), Field(59, 6, 4)}}

\* AfeBitField::mask: a field that ends before it begins has none.
WellFormed(f) == f.lsb <= f.msb /\ f.msb < 16

Width(f) == f.msb - f.lsb + 1

\* 1 << n, for the bits of a 16-bit word
Pow2(n) ==
    <<1, 2, 4, 8, 16, 32, 64, 128, 256, 512, 1024, 2048, 4096, 8192, 16384, 32768, 65536>>[n + 1]

\* The values the table allows, where it does not allow all that fit.
Allowed(f) ==
    CASE f \in {Field(21, 4, 1), Field(33, 4, 1)} -> 2 .. 10
      [] f = Field(51, 3, 1) -> {0, 2, 3, 4}
      [] f = Field(54, 4, 0) -> {0, 1, 2, 4, 8, 16}
      [] f \in {Field(1, 12, 14), Field(2, 10, 3)} -> 0 .. 1
      [] OTHER -> 0 .. Pow2(Width(f)) - 1

Extract(word, f) == (word \div Pow2(f.lsb)) % Pow2(Width(f))

\* Mutant: the bits are added, and the old ones not masked out.
ReplaceUnmasked(word, f, value) == word + value * Pow2(f.lsb)

\* replace_afe_function_bits, on 16 bits.
Replace(word, f, value) == word + ((value % Pow2(Width(f))) - Extract(word, f)) * Pow2(f.lsb)

\* apply_staged_afe: the functions it writes, in its order.
ProfileFields ==
    <<Field(3, 14, 13), Field(4, 1, 1), Field(4, 3, 3), Field(4, 4, 4),
      Field(51, 3, 1), Field(51, 4, 4), Field(51, 13, 13), Field(51, 7, 5), Field(52, 8, 8),
      Field(52, 10, 9), Field(52, 14, 13), Field(52, 12, 12)>>

\* The registers that keep a value.
Registers ==
    ({f.register : f \in Functions} \cup {w.register : w \in RawWrites}
        \cup (IF Profiles = {} THEN {} ELSE {f.register : f \in ToSet(ProfileFields)})) \ {0}

Words == 0 .. Pow2(16) - 1

ASSUME RegistersAssumption ==
    /\ Functions \subseteq AFE_FUNCTIONS
    /\ Values \subseteq Words
    /\ RawWrites \subseteq [register : 0 .. 255, value : Words]
    /\ Profiles \subseteq [DOMAIN ProfileFields -> 0 .. 255]

VARIABLES
    regs,      \* the AFE's registers
    readout,   \* its mode
    port,      \* what it put out last
    spi,       \* the word on its way and whose it is, NoWord if none: the busy bits
    command,   \* the command under way or answered last
    todo,      \* the steps it has left
    got,       \* the value that it read last
    result,    \* what it was answered
    unsure     \* history: when the command began, an earlier one had been cut since the last
               \* that was answered ok

afe == <<regs, readout, port, spi>>
vars == <<afe, command, todo, got, result, unsure>>

(***************************************************************************)
(* The words a command sends. All but the idle word, which follows a read, *)
(* come after wait_afe_ready, and so does the read.                        *)
(***************************************************************************)
Word(register, value) == [step |-> "word", register |-> register, value |-> value]
Trigger == Word(0, 2)
Idle == Word(0, 0)
Fetch == [step |-> "fetch"]
Check(f, value) == [step |-> "check", field |-> f, value |-> value]
Modify(f, value) == [step |-> "modify", field |-> f, value |-> value]

\* Mutant: no idle word follows the read.
ReadStepsNoIdle(register) == <<Trigger, Word(register, 0), Fetch>>

\* read_register
ReadSteps(register) == <<Trigger, Word(register, 0), Fetch, Idle>>

\* write_register
WriteSteps(write) == <<write>> \o ReadSteps(write.register)

\* write_afe_function; write_register's first word is made of what was read.
FunctionSteps(f, value) ==
    <<Check(f, value)>> \o ReadSteps(f.register)
        \o <<Modify(f, value)>> \o ReadSteps(f.register) \o ReadSteps(f.register)

\* The steps of a profile's functions, one function after the other.
ProfileSteps ==
    LET n == 2 + 3 * Len(ReadSteps(0))
    IN  [p \in Profiles |->
            [i \in 1 .. n * Len(ProfileFields) |->
                LET k == ((i - 1) \div n) + 1
                IN  FunctionSteps(ProfileFields[k], p[k])[((i - 1) % n) + 1]]]

Zeroes == [r \in Registers |-> 0]
DoReset == [kind |-> "Reset"]
NoWord == [register |-> -1, value |-> 0, by |-> DoReset]

Init ==
    /\ regs = Zeroes
    /\ readout = FALSE
    /\ port = 0
    /\ spi = NoWord
    /\ command = DoReset
    /\ todo = <<>>
    /\ got = 0
    /\ result = "ok"
    /\ unsure = FALSE

-------------------------------------------------------------------------------
(***************************************************************************)
(* Commands                                                                *)
(***************************************************************************)
Start(c, steps) ==
    /\ todo = <<>>
    /\ command' = c
    /\ todo' = steps
    /\ result' = "none"
    /\ got' = 0

\* Whether an earlier command was cut and none has been answered ok since.
UnsureNow ==
    CASE result = "ok" -> FALSE
      [] result \in {"Timeout", "Restarted"} -> TRUE
      [] OTHER -> unsure

ReadRegister ==
    /\ \E r \in Registers \cup {0} : Start([kind |-> "Read", register |-> r], ReadSteps(r))
    /\ unsure' = UnsureNow
    /\ UNCHANGED afe

WriteRegister ==
    /\ \E w \in RawWrites :
         Start([kind |-> "Write", register |-> w.register, value |-> w.value],
               WriteSteps(Word(w.register, w.value)))
    /\ unsure' = UnsureNow
    /\ UNCHANGED afe

WriteFunction ==
    /\ \E f \in Functions, v \in Values :
         Start([kind |-> "Function", field |-> f, value |-> v], FunctionSteps(f, v))
    /\ unsure' = UnsureNow
    /\ UNCHANGED afe

\* Mutant: the bit is written as it was, and the AFE is not reset.
ResetNotPulsed == UNCHANGED afe

\* The reset bit up and down; a word on its way is lost.
ResetAfe ==
    /\ regs' = Zeroes
    /\ readout' = FALSE
    /\ port' = 0
    /\ spi' = NoWord

\* do_reset waits for nothing.
Reset ==
    /\ todo = <<>>
    /\ ResetAfe
    /\ command' = DoReset
    /\ result' = "ok"
    /\ got' = 0
    /\ unsure' = FALSE
    /\ UNCHANGED todo

\* apply_configure_frontend: do_reset, DAC writes, and the functions of the AFE's record.
ApplyConfigureFrontend ==
    /\ \E p \in Profiles : Start([kind |-> "Apply", profile |-> p], ProfileSteps[p])
    /\ unsure' = FALSE
    /\ ResetAfe

Step(kind) == todo # <<>> /\ Head(todo).step = kind

\* What a command that has no step left is answered.
Advance ==
    /\ todo' = Tail(todo)
    /\ result' = IF Len(todo) = 1 THEN "ok" ELSE "none"
    /\ UNCHANGED <<command, unsure>>

Abandon(r) ==
    /\ todo' = <<>>
    /\ result' = r
    /\ UNCHANGED <<command, got, unsure>>

\* validate_afe_function_value, then mask
CheckError(f, value) ==
    IF value \notin Allowed(f) THEN "InvalidValue"
    ELSE IF ~WellFormed(f) THEN "InvalidFunctionField" ELSE "none"

CheckPasses ==
    /\ Step("check")
    /\ CheckError(Head(todo).field, Head(todo).value) = "none"
    /\ Advance
    /\ UNCHANGED <<afe, got>>

\* Nothing of this function has been sent.
CheckFails ==
    /\ Step("check")
    /\ CheckError(Head(todo).field, Head(todo).value) # "none"
    /\ Abandon(CheckError(Head(todo).field, Head(todo).value))
    /\ UNCHANGED afe

\* Mutant: nothing waits for the word before.
ReadyUnchecked == spi \in {NoWord, spi}

\* wait_afe_ready
Ready == spi = NoWord

Send(register, value) ==
    /\ Ready
    /\ spi' = [register |-> register, value |-> value, by |-> command]
    /\ Advance
    /\ UNCHANGED <<regs, readout, port, got>>

SendWord ==
    /\ Step("word")
    /\ Send(Head(todo).register, Head(todo).value)

SendModified ==
    /\ Step("modify")
    /\ Send(Head(todo).field.register, Replace(got, Head(todo).field, Head(todo).value))

FetchValue ==
    /\ Step("fetch")
    /\ Ready
    /\ got' = port
    /\ Advance
    /\ UNCHANGED afe

\* wait_afe_ready gives up: the word may still get there, and no idle word is sent.
TimeOut ==
    /\ Step("word") \/ Step("modify") \/ Step("fetch")
    /\ ~Ready
    /\ Abandon("Timeout")
    /\ UNCHANGED afe

\* The RPU starts again in the middle of a command.
Restart ==
    /\ todo # <<>>
    /\ Abandon("Restarted")
    /\ UNCHANGED afe

(***************************************************************************)
(* The AFE gets the word.                                                  *)
(***************************************************************************)
Resets(word) == Extract(word, SOFTWARE_RESET) = 1

AfeTakesWord ==
    /\ spi # NoWord
    /\ spi' = NoWord
    /\ CASE spi.register = 0 ->
               /\ regs' = IF Resets(spi.value) THEN Zeroes ELSE regs
               /\ readout' = (Extract(spi.value, REGISTER_READOUT_ENABLE) = 1)
               /\ UNCHANGED port
         [] spi.register # 0 /\ readout -> port' = regs[spi.register] /\ UNCHANGED <<regs, readout>>
         [] OTHER -> regs' = [regs EXCEPT ![spi.register] = spi.value] /\ UNCHANGED <<readout, port>>
    /\ UNCHANGED <<command, todo, got, result, unsure>>

Next ==
    \/ ReadRegister \/ WriteRegister \/ WriteFunction \/ Reset \/ ApplyConfigureFrontend
    \/ CheckPasses \/ CheckFails
    \/ SendWord \/ SendModified \/ FetchValue
    \/ TimeOut \/ Restart
    \/ AfeTakesWord

Spec == Init /\ [][Next]_vars

-------------------------------------------------------------------------------
(***************************************************************************)
(* Properties                                                              *)
(***************************************************************************)
Results == {"none", "ok", "InvalidValue", "InvalidFunctionField", "Timeout", "Restarted"}

TypeOK ==
    /\ regs \in [Registers -> Words]
    /\ readout \in BOOLEAN
    /\ port \in Words
    /\ spi = NoWord \/ (spi.register \in Registers \cup {0} /\ spi.value \in Words)
    /\ command.kind \in {"Read", "Write", "Function", "Reset", "Apply"}
    /\ got \in Words
    /\ result \in Results
    /\ result = "none" <=> todo # <<>>
    /\ unsure \in BOOLEAN

\* The fields that a command writes, and the others of a register.
OwnFields(c) ==
    CASE c.kind = "Function" -> {c.field}
      [] c.kind = "Apply" -> ToSet(ProfileFields)
      [] OTHER -> {}

Others(register, f) == {g \in AFE_FUNCTIONS \ {f} : g.register = register /\ WellFormed(g)}

\* The commands that write register 0.
WritesRegister0(c) ==
    \/ c.kind = "Write" /\ c.register = 0
    \/ c.kind = "Function" /\ c.field.register = 0

\* A register changes only by a reset, by the value of a direct write, or in the field of a
\* function that is being written: no function's neighbours change with it, and no read ever
\* changes a register, although it sends the same word that would set it to 0. The two functions
\* of register 0 are the exception, REGISTER_READOUT_ENABLE too: what is read of register 0 is
\* whatever the AFE put out last, and written back it may have the bit SOFTWARE_RESET.
OnlyOwnField ==
    [][regs' # regs =>
        \/ regs' = Zeroes /\ command'.kind \in {"Reset", "Apply"}
        \/ regs' = Zeroes /\ WritesRegister0(spi.by)
        \/ /\ spi.by.kind = "Write"
           /\ regs' = [regs EXCEPT ![spi.by.register] = spi.by.value]
        \/ \E f \in OwnFields(spi.by) :
             /\ f.register # 0
             /\ \A r \in Registers \ {f.register} : regs'[r] = regs[r]
             /\ \A g \in Others(f.register, f) :
                  Extract(regs'[f.register], g) = Extract(regs[f.register], g)]_vars

\* The AFE has what was written to it: the value, or after a SOFTWARE_RESET nothing.
Put(register, value) ==
    IF register = 0 THEN Resets(value) => regs = Zeroes ELSE regs[register] = value

Holds(f, value) ==
    IF f.register = 0 THEN f = SOFTWARE_RESET /\ value = 1 => regs = Zeroes
    ELSE Extract(regs[f.register], f) = value

\* A command that is answered ok has done what it was asked, and answers what the AFE holds,
\* whatever was cut before it: a function and a configuration begin with a read or a reset,
\* and so leave the readout mode in which a cut command may have left the AFE. A direct write
\* does not: the AFE then ignores its first word, and the command is answered ok all the same.
\* Of register 0 nothing can be answered; a write of it is ok once the AFE has been reset.
OkMeansWritten ==
    result = "ok" =>
        CASE command.kind = "Read" -> command.register # 0 => got = regs[command.register]
          [] command.kind = "Write" ->
               /\ command.register # 0 => got = regs[command.register]
               /\ command.register = 0 \/ ~unsure => Put(command.register, command.value)
          [] command.kind = "Function" ->
               /\ Holds(command.field, command.value)
               /\ command.field.register # 0 => Extract(got, command.field) = command.value
          [] command.kind = "Apply" ->
               \A i \in DOMAIN ProfileFields : Holds(ProfileFields[i], command.profile[i])
          [] OTHER -> TRUE

\* A record with a value that its function does not have is found out only when apply comes to
\* it: the functions before it are written, that one and those behind it are as after a reset.
FailedApplyIsPrefix ==
    command.kind = "Apply" /\ result = "InvalidValue" =>
        \E n \in DOMAIN ProfileFields :
            /\ command.profile[n] \notin Allowed(ProfileFields[n])
            /\ \A i \in DOMAIN ProfileFields :
                 IF i < n THEN Holds(ProfileFields[i], command.profile[i])
                 ELSE Holds(ProfileFields[i], 0)

===============================================================================
