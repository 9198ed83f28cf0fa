------------------------------ MODULE IrRemote ------------------------------
(***************************************************************************)
(* IrRemote: the infrared code of the power button, in register 0x82 of    *)
(* the case MCU and in the database.  A request to learn one overwrites    *)
(* the register with a sentinel, listens under the lock of the bus, reads  *)
(* the register back and, without the lock, saves what it read; requests   *)
(* overlap, a save fails, a client hangs up, the MCU forgets.              *)
(***************************************************************************)
EXTENDS Absent

CONSTANTS
  Code,       \* bound: the codes of remotes
  Operator,   \* bound: requests at a time
  SENTINEL    \* IR_LEARN_SENTINEL

ASSUME IrAssumption == SENTINEL \notin Code /\ None \notin Code \cup Operator \cup {SENTINEL}

VARIABLES
  ir_code,    \* the row, or None
  register,   \* what the MCU has in 0x82, None for what it was shipped with
  listening,  \* the request that holds the lock of the bus, or None
  learned,    \* learned[o]: what o read back and has yet to save, or None
  astray      \* history: the last request captured nothing, saved nothing or
              \* overlapped with another, or a start could not repair that

ir_vars == <<ir_code, register, listening, learned, astray>>

Settled == listening = None /\ \A o \in Operator : learned[o] = None

IrInit ==
  /\ ir_code = None /\ register = None
  /\ listening = None
  /\ learned = [o \in Operator |-> None]
  /\ astray = FALSE

-----------------------------------------------------------------------------
(* learn_ir: one request at a time has the lock.  The sentinel is written, *)
(* or the bus fails and the request ends.                                  *)
learn_ir(o) ==
  /\ listening = None /\ learned[o] = None
  /\ listening' = o
  /\ register' = SENTINEL
  /\ UNCHANGED <<ir_code, learned, astray>>

Press(code) ==
  /\ listening # None
  /\ register' = code
  /\ UNCHANGED <<ir_code, listening, learned, astray>>

(* The end of the window.  With the sentinel unchanged, or a bus that      *)
(* fails, nothing was captured, and the register is left as it is.         *)
mut_decode(bytes) == bytes
decode_learned_ir_code(bytes) == IF bytes = SENTINEL THEN None ELSE bytes

Capture(o) ==
  /\ listening = o /\ listening' = None
  /\ \E code \in {decode_learned_ir_code(register), None} :
       /\ learned' = [learned EXCEPT ![o] = code]
       /\ astray' = (code = None \/ \E p \in Operator : learned[p] # None)
  /\ UNCHANGED <<ir_code, register>>

(* The row is saved; or that fails, or the client hung up meanwhile.       *)
save_ir_code(o) ==
  /\ learned[o] # None
  /\ learned' = [learned EXCEPT ![o] = None]
  /\ \/ ir_code' = learned[o] /\ UNCHANGED astray
     \/ astray' = TRUE /\ UNCHANGED ir_code
  /\ UNCHANGED <<register, listening>>

(* The daemon starts, after a power cut or not, and programs the row, if   *)
(* there is one and the bus lets it.                                       *)
mut_program(code) == UNCHANGED register
program_ir_code(code) == register' = code

Boots(kept) ==
  /\ listening' = None /\ learned' = [o \in Operator |-> None]
  /\ \/ /\ ir_code # None /\ program_ir_code(ir_code)
        /\ astray' = FALSE
     \/ register' = kept /\ astray' = (astray \/ kept # register \/ ~Settled)
  /\ UNCHANGED ir_code

IrNext ==
  \/ \E o \in Operator : learn_ir(o) \/ Capture(o) \/ save_ir_code(o)
  \/ \E code \in Code : Press(code)
  \/ \E kept \in {register, None} : Boots(kept)

IrSpec == IrInit /\ [][IrNext]_ir_vars

-----------------------------------------------------------------------------
(* Every variable has its type; no sentinel is taken for a learnt code.    *)
IrTypeOK ==
  /\ ir_code \in Code \cup {None}
  /\ register \in Code \cup {SENTINEL, None}
  /\ listening \in Operator \cup {None}
  /\ learned \in [Operator -> Code \cup {None}]
  /\ astray \in BOOLEAN

(* The remote that switches the case on is the one the page shows, after   *)
(* any number of requests, restarts and power cuts: the exceptions are a   *)
(* request that came to nothing and two that overlap, until the next start *)
(* or request.                                                             *)
RemoteIsStored == Settled /\ ~astray => register = ir_code
=============================================================================
