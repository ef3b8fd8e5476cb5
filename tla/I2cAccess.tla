----------------------------- MODULE I2cAccess -----------------------------
(***************************************************************************)
(* What the bridge ams_i2c promises to the firmware: one access at a time, *)
(* which the addressed device serves once or refuses, and whose answer is  *)
(* that of this access: the register read, zero when the device refused.   *)
(***************************************************************************)
CONSTANTS Command,      \* records [dev, reg, data, read, status]
          Own,          \* the address of the device
          Byte, Zero    \* contents of a register
VARIABLES mem,          \* the registers of the device
          op,           \* {} or the set of the one access under way
          outcome,      \* what the device did: "none" yet, "done", "refused"
          value         \* the last answer

accessVars == <<mem, op, outcome, value>>

Init ==
  /\ mem \in [Byte -> Byte]
  /\ op = {} /\ outcome = "none" /\ value = Zero

Ask ==
  /\ op = {}
  /\ \E c \in Command : op' = {c}
  /\ UNCHANGED <<mem, outcome, value>>

Serve ==
  /\ outcome = "none" /\ outcome' = "done"
  /\ \E c \in op :
       /\ c.dev = Own
       /\ mem' = IF c.read THEN mem ELSE [mem EXCEPT ![c.reg] = c.data]
  /\ UNCHANGED <<op, value>>

Refuse ==
  /\ op # {} /\ outcome = "none" /\ outcome' = "refused"
  /\ UNCHANGED <<mem, op, value>>

Return ==
  /\ outcome # "none" /\ outcome' = "none" /\ op' = {}
  /\ \E c \in op :
       value' = CASE ~c.read -> value
                  [] c.read /\ (c.status \/ outcome = "refused") -> Zero
                  [] OTHER -> mem[c.reg]
  /\ UNCHANGED mem

Next == Ask \/ Serve \/ Refuse \/ Return

Spec == Init /\ [][Next]_accessVars
=============================================================================
