---------------------------- MODULE TenantBilling ----------------------------
(***************************************************************************)
(* The balance of one tenant: the check before a turn                      *)
(* (src/pulse/src/billing/tenant-access.ts) and the transactions that      *)
(* charge a turn and its memory capture (src/pulse/src/agent/runtime.ts).  *)
(* The price of a turn or of a capture is one credit.                      *)
(***************************************************************************)
EXTENDS RunRecorder, Integers

CONSTANTS
    Metered,        \* BOOLEAN: the plan is charged against the balance
    StartBalance

ASSUME BillingConstants ==
    /\ Metered \in BOOLEAN
    /\ StartBalance \in Nat

VARIABLES
    balance,  \* tenant_balances.balance
    charged,  \* turns with a usage record and a ledger entry
    captured, \* turns whose memory capture has them
    waved     \* turns let through because the check itself failed

billVars == <<balance, charged, captured, waved>>

BillTypeOK ==
    /\ balance \in Int
    /\ charged \subseteq Turn
    /\ captured \subseteq Turn
    /\ waved \subseteq Turn

BillInit ==
    /\ balance = StartBalance
    /\ charged = {}
    /\ captured = {}
    /\ waved = {}

-----------------------------------------------------------------------------
\* checkTenantAccess for a tenant that is active and not suspended.
HasCredit == Metered => balance > 0

\* Its catch block: a check that breaks lets the turn through.
WaveThrough(t) ==
    /\ waved' = waved \cup {t}
    /\ UNCHANGED <<balance, charged, captured>>

\* Usage record, balance and ledger entry in one transaction.
Charge(t) ==
    /\ balance' = balance - 1
    /\ charged' = charged \cup {t}
    /\ UNCHANGED <<captured, waved>>

\* The same three statements for the tokens of a memory capture.
ChargeCapture(t) ==
    /\ balance' = balance - 1
    /\ captured' = captured \cup {t}
    /\ UNCHANGED <<charged, waved>>
=============================================================================
