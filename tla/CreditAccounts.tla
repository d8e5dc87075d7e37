--------------------------- MODULE CreditAccounts ---------------------------
(***************************************************************************)
(* What the credit service promises about a member's balances: every       *)
(* operation takes effect at once on the balance it finds, none is lost    *)
(* under another, and a balance is never overdrawn.                        *)
(* CreditLedger.tla implements this with compare-and-swap statements.      *)
(***************************************************************************)
EXTENDS Integers

CONSTANTS Types,      \* the credit types
          Uncapped,   \* those without a maximum balance
          MaxBalance, \* the maximum balance of the others
          Amounts,    \* amounts that can be added or spent
          Levels      \* balances an allocation can set

VARIABLE balance

Capped(t, n) == IF t \in Uncapped \/ n <= MaxBalance THEN n ELSE MaxBalance

Init == balance = [t \in Types |-> 0]

Deposit(t, n) == balance' = [balance EXCEPT ![t] = Capped(t, @ + n)]
Spend(t, n) == /\ balance[t] >= n
               /\ balance' = [balance EXCEPT ![t] = @ - n]
Reset(t, n) == balance' = [balance EXCEPT ![t] = n]

Next == \E t \in Types : \/ \E n \in Amounts : Deposit(t, n) \/ Spend(t, n)
                         \/ \E n \in Levels \cup {0} : Reset(t, n)

Spec == Init /\ [][Next]_balance
=============================================================================
