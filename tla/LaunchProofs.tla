------------------------------ MODULE LaunchProofs ------------------------------
(******************************************************************************)
(* Proofs about the launch of a token, for any accounts, tickers, precisions, *)
(* configurations and amounts: the registry is the environment the tokens     *)
(* contract is proved in; a launched token stays registered as it was, and    *)
(* its supply is final (Pinned); and what the contract holds leaves it in a   *)
(* distribution only (Held).                                                  *)
(******************************************************************************)
EXTENDS Launch, TokensProofs

\* A supply set by setsupply: all of it is out, and no account that acts is the issuer.
Final(L) == L.maxSupply > 0 /\ L.supply = L.maxSupply /\ L.issuer = Registry

SameStats(L, N) ==
  N.supply = L.supply /\ N.maxSupply = L.maxSupply /\ N.issuer = L.issuer

\* A token with an origin is final; a token that setsupply issued keeps its stats
\* during a transaction; and one the transaction has brought about came from
\* setsupply, of a ticker that is registered to the contract.
Pinned ==
  \A t \in Tickers :
    /\ HasOrigin(t) => Final(committed[t])
    /\ (committed[t].maxSupply > 0 /\ committed[t].issuer = Registry) =>
         SameStats(committed[t], tokens[t])
    /\ (committed[t].maxSupply = 0 /\ tokens[t].maxSupply > 0) =>
         Final(tokens[t]) /\ registered[t].contract = Self

\* The inductive invariant.
LaunchInv == Delivery /\ LaunchTypeOK /\ LaunchedAsRegistered /\ Pinned

----
(* The registry's table, and what the tokens contract reads of it. *)

\* An action of the registry changes one row at most: it adds or removes it, or
\* names the contract of one that has none yet.
LEMMA RowsStep ==
  ASSUME rows \in [Tickers -> R!TokenRows \cup {R!Unregistered}], R!Next
  PROVE  \/ rows' = rows
         \/ \E t \in Tickers : \E row \in R!TokenRows \cup {R!Unregistered} :
              /\ rows' = [rows EXCEPT ![t] = row]
              /\ \/ rows[t] = R!Unregistered \/ row = R!Unregistered
                 \/ rows[t].contract \in {Unset, NoAccount}
<1>1. CASE R!LedgerNext \/ R!ConfigNext
  BY <1>1 DEF R!LedgerNext, R!ConfigNext, R!OpenBalance, R!CloseBalance, R!Deposit, R!Withdraw,
              R!UncreditedTransfer, R!HolderTransfer, R!SetConfig, R!Enable, R!Disable
<1>2. ASSUME NEW creator \in Customers, NEW t \in Tickers, NEW p \in Precisions,
             \/ R!AddToken(creator, t, p)
             \/ \E sym \in R!Symbols, q \in R!Amounts : R!RegToken(creator, t, p, sym, q)
      PROVE  \E row \in R!TokenRows \cup {R!Unregistered} :
               rows' = [rows EXCEPT ![t] = row] /\ rows[t] = R!Unregistered
  <2>1. PICK payer \in Accounts : R!AddRow(t, p, creator, payer) /\ rows[t] = R!Unregistered
    BY <1>2, LaunchAssumption, TokensAssumption DEF R!AddToken, R!RegToken, R!IsRegistered
  <2>2. R!NewRow(creator, p, payer) \in R!TokenRows
    BY <2>1, LaunchAssumption DEF R!AddRow, R!NewRow, R!TokenRows
  <2> QED
    BY <2>1, <2>2 DEF R!AddRow
<1>3. ASSUME NEW t \in Tickers, R!RmToken(t)
      PROVE  rows' = [rows EXCEPT ![t] = R!Unregistered]
  BY <1>3 DEF R!RmToken
<1>4. ASSUME NEW t \in Tickers, NEW c \in Whitelist, R!SetContract(t, c)
      PROVE  \E row \in R!TokenRows : /\ rows' = [rows EXCEPT ![t] = row]
                                      /\ rows[t].contract \in {Unset, NoAccount}
  <2> DEFINE row == [rows[t] EXCEPT !.contract = c]
  <2>1. /\ rows[t] \in R!TokenRows /\ rows[t].contract \in {Unset, NoAccount}
        /\ rows' = [rows EXCEPT ![t] = row]
    BY <1>4 DEF R!SetContract, R!IsRegistered
  <2>2. row \in R!TokenRows
    BY <2>1 DEF R!TokenRows
  <2> HIDE DEF row
  <2> QED
    BY <2>1, <2>2
<1>5. ASSUME NEW c \in Whitelist, R!AddContract(c) \/ R!RmContract(c) PROVE rows' = rows
  BY <1>5 DEF R!AddContract, R!RmContract
<1>6. CASE R!TokenNext
  BY <1>2, <1>3, <1>4, <1>5, <1>6 DEF R!TokenNext
<1> QED
  BY <1>1, <1>6 DEF R!Next

\* What get_token makes of a row.
LEMMA FoundFields ==
  ASSUME NEW row \in R!TokenRows \cup {R!Unregistered}
  PROVE  /\ Found(row) \in Registrations
         /\ Found(row).contract = Self => row # R!Unregistered /\ row.contract = Self
<1>1. Self # NoAccount /\ NoAccount \notin Accounts
  BY TokensAssumption
<1>2. CASE row = R!Unregistered
  BY <1>1, <1>2 DEF Found, Registrations, Unregistered
<1>3. CASE row # R!Unregistered
  <2>1. row.creator \in Accounts
    BY <1>3 DEF R!TokenRows
  <2> QED
    BY <1>1, <1>3, <2>1 DEF Found, Registrations
<1> QED
  BY <1>2, <1>3

\* What an action of the registry is to the tokens contract.
LEMMA RegistryStepChanges ==
  ASSUME LaunchTypeOK, RegistryStep
  PROVE  [Next]_vars
<1>1. /\ rows \in [Tickers -> R!TokenRows \cup {R!Unregistered}] /\ R!Next /\ Idle
      /\ registered = [t \in Tickers |-> Found(rows[t])]
      /\ registered' = [t \in Tickers |-> Found(rows'[t])]
      /\ UNCHANGED <<tokens, committed, todo, tokenRegistry, forwards, launch>>
  BY DEF LaunchTypeOK, RegistryStep
<1>2. CASE rows' = rows
  BY <1>1, <1>2 DEF vars
<1>3. ASSUME NEW t \in Tickers, NEW row \in R!TokenRows \cup {R!Unregistered},
             rows' = [rows EXCEPT ![t] = row]
      PROVE  Setup
  <2>1. registered' = [registered EXCEPT ![t] = Found(row)]
    BY <1>1, <1>3
  <2>2. RegistryChange(t, Found(row)) /\ Found(row) \in Registrations
    BY <1>1, <2>1, FoundFields DEF RegistryChange
  <2> QED
    BY <2>2 DEF Setup
<1> QED
  BY <1>1, <1>2, <1>3, RowsStep DEF Next

----
(* What the actions do to the stats of a ticker, and to what the contract holds. *)

\* What an action may make of the ledger of t: the same stats; or new ones, if its
\* issuer acts; or the supply of a ticker that is registered to the contract.
Ruled(t, N) ==
  LET L == tokens[t] IN
    \/ SameStats(L, N)
    \/ L.maxSupply > 0 /\ L.issuer \in Signers \cup Handlers /\ N.issuer = L.issuer
    \/ L.maxSupply = 0 /\ Final(N) /\ registered[t].contract = Self

\* The actions that are pending after a transfer: reactions, and payments passed on,
\* which are not the contract's own.
PassedOn == {x \in Actions : x.act # "transfer" /\ (x.act = "transfer2" => x.from # Self)}

LEMMA ActiveActs ==
  ASSUME Inv, NEW a \in Active
  PROVE  a \in Accounts /\ a \in Signers \cup Handlers /\ a # Self
<1>1. a \in Accounts /\ (~ Idle => a \in Handlers)
  BY ActiveReacts
<1>2. Idle => a \in Signers
  BY DEF Active
<1> QED
  BY <1>1, <1>2, TokensAssumption

\* Rows and balances are no part of the stats.
LEMMA RowStats ==
  ASSUME NEW L \in Ledgers, NEW a, NEW q, NEW p
  PROVE  /\ SameStats(L, AddBalance(L, a, q, p)) /\ SameStats(L, SubBalance(L, a, q, p))
         /\ SameStats(L, [L EXCEPT !.payer[a] = p])
BY DEF SameStats, AddBalance, SubBalance, Ledgers

LEMMA SupplyActionsRuled ==
  ASSUME Inv, NEW a \in Active, NEW t \in Tickers, NEW q \in Amounts,
         \/ Issue(a, t, q) \/ IssueFixed(a, t, q) \/ SetMaxSupply(a, t, q) \/ Retire(a, t, q)
         \/ SetSupply(a, t, q)
  PROVE  \E N : /\ Continue([tokens EXCEPT ![t] = N], <<>>, todo)
                /\ Ruled(t, N)
                /\ N.balance[Self] >= tokens[t].balance[Self]
<1> DEFINE L == tokens[t]
<1>1. /\ L \in Ledgers /\ a \in Accounts /\ a # Self /\ a \in Signers \cup Handlers
      /\ L.balance \in [Accounts -> Amounts] /\ L.balance[Self] \in Nat /\ Self \in Accounts
      /\ L.maxSupply \in Nat /\ q \in Nat
  <2>1. L \in Ledgers /\ Self \in Accounts
    BY TokensAssumption DEF Inv, TypeOK
  <2> HIDE DEF L
  <2> QED
    BY <2>1, ActiveActs, LedgerFields, AmountsAreNumbers
<1>2. ASSUME NEW n, Issue(a, t, n)
      PROVE  \E N : /\ Continue([tokens EXCEPT ![t] = N], <<>>, todo)
                    /\ Ruled(t, N)
                    /\ N.balance[Self] >= L.balance[Self]
  <2> DEFINE N == AddBalance([L EXCEPT !.supply = L.supply + n], a, n, a)
  <2>1. Continue([tokens EXCEPT ![t] = N], <<>>, todo) /\ L.maxSupply > 0 /\ L.issuer = a
    BY <1>2 DEF Issue, Exists
  <2>2. N.balance = Credit(L.balance, a, n) /\ N.issuer = L.issuer
    BY <1>1 DEF AddBalance, Ledgers
  <2>3. N.balance[Self] = L.balance[Self]
    BY <1>1, <2>2 DEF Credit
  <2> HIDE DEF N
  <2>4. Ruled(t, N) /\ N.balance[Self] >= L.balance[Self]
    BY <1>1, <2>1, <2>2, <2>3 DEF Ruled
  <2> QED
    BY <2>1, <2>4
<1>3. CASE Issue(a, t, q) \/ IssueFixed(a, t, q)
  BY <1>2, <1>3 DEF IssueFixed
<1>4. CASE SetMaxSupply(a, t, q)
  <2> DEFINE N == [L EXCEPT !.maxSupply = q]
  <2>1. Continue([tokens EXCEPT ![t] = N], <<>>, todo) /\ L.maxSupply > 0 /\ L.issuer = a
    BY <1>4 DEF SetMaxSupply, Exists
  <2>2. N.balance = L.balance /\ N.issuer = L.issuer
    BY <1>1 DEF Ledgers
  <2> HIDE DEF N
  <2>3. Ruled(t, N) /\ N.balance[Self] >= L.balance[Self]
    BY <1>1, <2>1, <2>2 DEF Ruled
  <2> QED
    BY <2>1, <2>3
<1>5. CASE Retire(a, t, q)
  <2> DEFINE N == SubBalance([L EXCEPT !.supply = L.supply - q], a, q, a)
  <2>1. Continue([tokens EXCEPT ![t] = N], <<>>, todo) /\ L.maxSupply > 0 /\ L.issuer = a
    BY <1>5 DEF Retire, Exists
  <2>2. N.balance = Debit(L.balance, a, q) /\ N.issuer = L.issuer
    BY <1>1 DEF SubBalance, Ledgers
  <2>3. N.balance[Self] = L.balance[Self]
    BY <1>1, <2>2 DEF Debit
  <2> HIDE DEF N
  <2>4. Ruled(t, N) /\ N.balance[Self] >= L.balance[Self]
    BY <1>1, <2>1, <2>2, <2>3 DEF Ruled
  <2> QED
    BY <2>1, <2>4
<1>6. CASE SetSupply(a, t, q)
  <2> DEFINE N == AddBalance([L EXCEPT !.supply = q, !.maxSupply = q,
                                       !.issuer = tokenRegistry], Self, q, a)
  <2>1. /\ Continue([tokens EXCEPT ![t] = N], <<>>, todo)
        /\ L.maxSupply = 0 /\ q > 0 /\ tokenRegistry = Registry
        /\ registered[t].contract = Self
    BY <1>1, <1>6 DEF SetSupply, Exists, IsOurs
  <2>2. /\ N.balance = Credit(L.balance, Self, q) /\ N.issuer = tokenRegistry
        /\ N.supply = q /\ N.maxSupply = q
    BY <1>1 DEF AddBalance, Ledgers
  <2>3. N.balance[Self] = L.balance[Self] + q
    BY <1>1, <2>2 DEF Credit
  <2> HIDE DEF N
  <2>4. Ruled(t, N) /\ N.balance[Self] >= L.balance[Self]
    BY <1>1, <2>1, <2>2, <2>3 DEF Ruled, Final
  <2> QED
    BY <2>1, <2>4
<1> QED
  BY <1>3, <1>4, <1>5, <1>6

LEMMA RowActionsRuled ==
  ASSUME Inv, NEW a \in Active, NEW t \in Tickers,
         \/ Close(a, t)
         \/ \E owner \in Accounts : Open(owner, t, a)
  PROVE  \E N : /\ Continue([tokens EXCEPT ![t] = N], <<>>, todo)
                /\ Ruled(t, N)
                /\ N.balance = tokens[t].balance
<1> DEFINE L == tokens[t]
<1>1. L \in Ledgers
  BY DEF Inv, TypeOK
<1>2. PICK o, p : Continue([tokens EXCEPT ![t] = [L EXCEPT !.payer[o] = p]], <<>>, todo)
  BY DEF Close, CloseThen, CanClose, Open
<1> DEFINE N == [L EXCEPT !.payer[o] = p]
<1>3. SameStats(L, N) /\ N.balance = L.balance /\ Continue([tokens EXCEPT ![t] = N], <<>>, todo)
  BY <1>1, <1>2, RowStats DEF Ledgers
<1> HIDE DEF N
<1> QED
  BY <1>3 DEF Ruled

\* A transfer, of the contract's own tokens or others'.
LEMMA MoveRuled ==
  ASSUME Inv, NEW from \in Accounts, NEW to, NEW r \in Accounts, NEW t \in Tickers,
         NEW q \in Amounts, NEW rest,
         TransferThen(from, to, r, t, q, rest) \/ Transfer2Then(from, to, r, t, q, rest)
  PROVE  \E N : \E acts \in Seq(PassedOn) :
           /\ Continue([tokens EXCEPT ![t] = N], acts, rest)
           /\ Ruled(t, N)
           /\ from # Self => N.balance[Self] >= tokens[t].balance[Self]
<1> DEFINE L == tokens[t]
<1>1. /\ L \in Ledgers /\ from # to /\ to \in Accounts /\ Self \in Accounts
      /\ CanSub(L, from, q) /\ CanAdd(L, to, q) /\ q \in Nat
      /\ L.balance[Self] \in Nat
  <2>1. L \in Ledgers /\ Self \in Accounts
    BY TokensAssumption DEF Inv, TypeOK
  <2>2. from # to /\ to \in Accounts /\ CanSub(L, from, q) /\ CanAdd(L, to, q)
    BY DEF TransferThen, Transfer2Then, CanTransfer
  <2> HIDE DEF L
  <2> QED
    BY <2>1, <2>2, LedgerFields, AmountsAreNumbers
<1>2. \A a \in Accounts : Reacts(a) \in Seq(PassedOn)
  <2>1. \A a \in Handlers : [act |-> "react", who |-> a] \in PassedOn
    BY DEF PassedOn, Actions
  <2>2. \A x \in PassedOn : <<x>> \in Seq(PassedOn)
    OBVIOUS
  <2> QED
    BY <2>1, <2>2, EmptySeq DEF Reacts
<1>3. ASSUME NEW p \in Accounts, NEW acts \in Seq(PassedOn),
             Continue([tokens EXCEPT ![t] = AddBalance(SubBalance(L, from, q, p), to, q, r)],
                      acts, rest)
      PROVE  \E N : \E queued \in Seq(PassedOn) :
               /\ Continue([tokens EXCEPT ![t] = N], queued, rest)
               /\ Ruled(t, N)
               /\ from # Self => N.balance[Self] >= L.balance[Self]
  <2> DEFINE S == SubBalance(L, from, q, p)
             N == AddBalance(S, to, q, r)
  <2>1. S \in Ledgers /\ SameStats(L, S)
    BY <1>1, SubBalanceFields, RowStats
  <2>2. SameStats(S, N)
    BY <2>1, RowStats
  <2>3. SameStats(L, N)
    BY <2>1, <2>2 DEF SameStats
  <2>4. from # Self => N.balance[Self] >= L.balance[Self]
    BY <1>1, MovedFields
  <2>5. Continue([tokens EXCEPT ![t] = N], acts, rest)
    BY <1>3
  <2> HIDE DEF S, N
  <2> QED
    BY <2>3, <2>4, <2>5 DEF Ruled
<1>4. CASE TransferThen(from, to, r, t, q, rest)
  <2> DEFINE moved == AddBalance(SubBalance(L, from, q, from), to, q, r)
             back == IF to \in Forwarders THEN Forward(to, t, q) ELSE Reacts(to)
  <2>1. /\ to \in Forwarders => Accepts(to, from, moved)
        /\ Continue([tokens EXCEPT ![t] = moved], Reacts(from) \o back, rest)
    BY <1>4 DEF TransferThen
  <2>2. back \in Seq(PassedOn)
    <3>1. CASE to \in Forwarders
      <4> DEFINE x == Transfer1("transfer2", to, forwards[to].destination, t, q)
      <4>1. forwards[to].destination \in Accounts
        BY <2>1, <3>1 DEF Accepts
      <4>2. x \in Actions /\ x.act = "transfer2" /\ x.from = to
        BY <1>1, <4>1, TransferType DEF Transfer1
      <4>3. x \in PassedOn
        BY <3>1, <4>2, TokensAssumption DEF PassedOn
      <4> HIDE DEF x
      <4>4. <<x>> \in Seq(PassedOn)
        BY <4>3
      <4> QED
        BY <3>1, <4>4 DEF Forward, x
    <3>2. CASE to \notin Forwarders
      BY <1>1, <1>2, <3>2
    <3> QED
      BY <3>1, <3>2
  <2> HIDE DEF back, moved
  <2>3. Reacts(from) \o back \in Seq(PassedOn)
    BY <1>2, <2>2, ConcatProperties
  <2> QED
    BY <1>3, <2>1, <2>3 DEF moved
<1>5. CASE Transfer2Then(from, to, r, t, q, rest)
  <2>1. Continue([tokens EXCEPT
                    ![t] = AddBalance(SubBalance(L, from, q, L.payer[from]), to, q, r)],
                 Reacts(from) \o Reacts(to), rest)
    BY <1>5 DEF Transfer2Then
  <2>2. L.payer[from] \in Accounts
    BY <1>1, LedgerFields DEF CanSub, HasRow
  <2>3. Reacts(from) \o Reacts(to) \in Seq(PassedOn)
    BY <1>1, <1>2, ConcatProperties
  <2> HIDE DEF L
  <2> QED
    BY <1>3, <2>1, <2>2, <2>3 DEF L
<1> QED
  BY <1>4, <1>5

----
(* Each step preserves the invariant. *)

\* What a step of the tokens contract records.
Recorded ==
  /\ UNCHANGED <<rows, registered, removed>>
  /\ origin' = [t \in Tickers |->
                  IF committed[t].maxSupply = 0 /\ committed'[t].supply > 0 THEN rows[t]
                  ELSE origin[t]]

\* A failure; an action of a transaction, which may commit; or a create.
TurnOf(t) ==
  \/ committed'[t] = committed[t] /\ tokens'[t] = committed[t]
  \/ committed'[t] \in {committed[t], tokens'[t]} /\ Ruled(t, tokens'[t])
  \/ /\ committed[t].maxSupply = 0
     /\ committed'[t] = tokens'[t] /\ tokens'[t].supply = 0

LEMMA TickerPinned ==
  ASSUME LaunchInv, Inv', Recorded, NEW t \in Tickers, TurnOf(t)
  PROVE  /\ HasOrigin(t)' =>
              /\ Final(committed'[t])
              /\ origin'[t].contract = Self
              /\ t \notin removed' => rows'[t] = origin'[t]
         /\ (committed'[t].maxSupply > 0 /\ committed'[t].issuer = Registry) =>
              SameStats(committed'[t], tokens'[t])
         /\ (committed'[t].maxSupply = 0 /\ tokens'[t].maxSupply > 0) =>
              Final(tokens'[t]) /\ registered'[t].contract = Self
<1> DEFINE C == committed[t]
           L == tokens[t]
           D == committed'[t]
           N == tokens'[t]
<1>1. Inv /\ LaunchTypeOK /\ LaunchedAsRegistered /\ Pinned
  BY DEF LaunchInv, Delivery
<1>2. /\ HasOrigin(t) => Final(C) /\ origin[t].contract = Self
                          /\ (t \notin removed => rows[t] = origin[t])
      /\ (C.maxSupply > 0 /\ C.issuer = Registry) => SameStats(C, L)
      /\ (C.maxSupply = 0 /\ L.maxSupply > 0) => Final(L) /\ registered[t].contract = Self
  BY <1>1 DEF Pinned, LaunchedAsRegistered
<1>3. /\ C.supply <= C.maxSupply /\ D.supply <= D.maxSupply /\ L.supply <= L.maxSupply
      /\ N.supply <= N.maxSupply
      /\ C.supply \in Nat /\ D.supply \in Nat /\ L.supply \in Nat /\ N.supply \in Nat
      /\ C.maxSupply \in Nat /\ D.maxSupply \in Nat /\ L.maxSupply \in Nat /\ N.maxSupply \in Nat
  <2>1. \A M : Sound(M) => /\ M.supply <= M.maxSupply
                           /\ M.supply \in Nat /\ M.maxSupply \in Nat
    BY LedgerFields, AmountsAreNumbers DEF Sound, AddsUp
  <2>2. Sound(C) /\ Sound(L) /\ Sound(D) /\ Sound(N)
    BY <1>1 DEF Inv, TypeOK, SupplyConserved, Sound
  <2> QED
    BY <2>1, <2>2
<1>4. /\ registered'[t] = registered[t] /\ rows'[t] = rows[t] /\ removed' = removed
      /\ origin'[t] = IF C.maxSupply = 0 /\ D.supply > 0 THEN rows[t] ELSE origin[t]
  BY DEF Recorded
<1>5. registered[t].contract = Self => rows[t].contract = Self
  BY <1>1, FoundFields DEF LaunchTypeOK
<1>6. \/ D = C /\ N = C
      \/ D \in {C, N} /\ Ruled(t, N)
      \/ C.maxSupply = 0 /\ D = N /\ N.supply = 0
  BY DEF TurnOf
<1>7. Ruled(t, N) =>
        \/ SameStats(L, N)
        \/ L.maxSupply > 0 /\ L.issuer # Registry /\ N.issuer = L.issuer
        \/ L.maxSupply = 0 /\ Final(N) /\ registered[t].contract = Self
  BY LaunchAssumption DEF Ruled
<1>8. HasOrigin(t)' <=> origin'[t] # R!Unregistered
  BY DEF HasOrigin, R!Unregistered
<1> HIDE DEF C, L, D, N
<1>9. (C.maxSupply > 0 /\ C.issuer = Registry /\ Ruled(t, N)) => SameStats(C, N)
  BY <1>2, <1>3, <1>7 DEF SameStats
<1>10. (C.maxSupply = 0 /\ N.maxSupply > 0 /\ Ruled(t, N)) =>
         Final(N) /\ registered[t].contract = Self
  BY <1>2, <1>3, <1>7 DEF SameStats, Final
<1>11. ASSUME HasOrigin(t)'
       PROVE  Final(D) /\ origin'[t].contract = Self
              /\ (t \notin removed' => rows'[t] = origin'[t])
  <2>1. CASE C.maxSupply = 0 /\ D.supply > 0
    <3>1. D = N /\ N.maxSupply > 0 /\ Ruled(t, N)
      BY <1>3, <1>6, <2>1
    <3> QED
      BY <1>4, <1>5, <1>10, <2>1, <3>1
  <2>2. CASE ~ (C.maxSupply = 0 /\ D.supply > 0)
    <3>1. origin'[t] = origin[t] /\ HasOrigin(t)
      BY <1>4, <1>8, <1>11, <2>2 DEF HasOrigin
    <3>2. Final(C)
      BY <1>2, <3>1
    <3>3. Final(D)
      BY <1>3, <1>6, <1>9, <3>2 DEF Final, SameStats
    <3> QED
      BY <1>2, <1>4, <3>1, <3>3
  <2> QED
    BY <2>1, <2>2
<1>12. (D.maxSupply > 0 /\ D.issuer = Registry) => SameStats(D, N)
  BY <1>6, <1>9 DEF SameStats
<1>13. (D.maxSupply = 0 /\ N.maxSupply > 0) => Final(N) /\ registered'[t].contract = Self
  BY <1>4, <1>6, <1>10
<1> QED
  BY <1>11, <1>12, <1>13 DEF D, N

LEMMA RecordedStep ==
  ASSUME LaunchInv, Delivery', Recorded, \A t \in Tickers : TurnOf(t)
  PROVE  LaunchInv'
<1>1. Inv' /\ Inv /\ LaunchTypeOK
  BY DEF LaunchInv, Delivery
<1>2. LaunchTypeOK'
  <2>1. TypeOK'
    BY <1>1 DEF Inv
  <2>2. /\ rows' \in [Tickers -> R!TokenRows \cup {R!Unregistered}]
        /\ registered' = [t \in Tickers |-> Found(rows'[t])]
        /\ origin' \in [Tickers -> R!TokenRows \cup {R!Unregistered}]
        /\ removed' \subseteq Tickers
    BY <1>1 DEF LaunchTypeOK, Recorded
  <2> QED
    BY <2>1, <2>2 DEF LaunchTypeOK, Found, R!TokenRows, R!Unregistered
<1>3. \A t \in Tickers :
        /\ HasOrigin(t)' =>
              /\ Final(committed'[t])
              /\ origin'[t].contract = Self
              /\ t \notin removed' => rows'[t] = origin'[t]
        /\ (committed'[t].maxSupply > 0 /\ committed'[t].issuer = Registry) =>
              SameStats(committed'[t], tokens'[t])
        /\ (committed'[t].maxSupply = 0 /\ tokens'[t].maxSupply > 0) =>
              Final(tokens'[t]) /\ registered'[t].contract = Self
  BY <1>1, TickerPinned
<1>4. LaunchedAsRegistered' /\ Pinned'
  BY <1>3 DEF LaunchedAsRegistered, Pinned, Final, SameStats, HasOrigin
<1> QED
  BY <1>2, <1>4 DEF LaunchInv

\* An action on one ticker is a turn of every ticker.
LEMMA ContinueTurns ==
  ASSUME Inv, NEW t \in Tickers, NEW N, NEW acts, NEW rest,
         Continue([tokens EXCEPT ![t] = N], acts, rest), Ruled(t, N)
  PROVE  \A u \in Tickers : TurnOf(u)
<1>1. /\ tokens \in [Tickers -> Ledgers] /\ tokens' = [tokens EXCEPT ![t] = N]
      /\ committed' \in {committed, tokens'}
  BY DEF Continue, Inv, TypeOK
<1>2. ASSUME NEW u \in Tickers PROVE Ruled(u, tokens'[u])
  BY <1>1 DEF Ruled, SameStats
<1> QED
  BY <1>1, <1>2 DEF TurnOf

LEMMA SameLedgersTurn ==
  ASSUME NEW acts, NEW rest, Continue(tokens, acts, rest)
  PROVE  \A u \in Tickers : TurnOf(u)
<1>1. tokens' = tokens /\ committed' \in {committed, tokens'}
  BY DEF Continue
<1>2. \A u \in Tickers : Ruled(u, tokens'[u])
  BY <1>1 DEF Ruled, SameStats
<1> QED
  BY <1>1, <1>2 DEF TurnOf

LEMMA ActionTurns ==
  ASSUME Inv, NEW a \in Active, ActionOf(a)
  PROVE  \A u \in Tickers : TurnOf(u)
<1>1. ASSUME NEW t \in Tickers, NEW q \in Amounts,
             \/ Issue(a, t, q) \/ IssueFixed(a, t, q) \/ SetMaxSupply(a, t, q)
             \/ Retire(a, t, q) \/ SetSupply(a, t, q)
      PROVE  \A u \in Tickers : TurnOf(u)
  <2>1. PICK N : Continue([tokens EXCEPT ![t] = N], <<>>, todo) /\ Ruled(t, N)
    BY <1>1, SupplyActionsRuled
  <2> QED
    BY <2>1, ContinueTurns
<1>2. ASSUME NEW t \in Tickers, Close(a, t) \/ \E owner \in Accounts : Open(owner, t, a)
      PROVE  \A u \in Tickers : TurnOf(u)
  <2>1. PICK N : Continue([tokens EXCEPT ![t] = N], <<>>, todo) /\ Ruled(t, N)
    BY <1>2, RowActionsRuled
  <2> QED
    BY <2>1, ContinueTurns
<1>3. ASSUME NEW t \in Tickers, NEW q \in Amounts, NEW to \in Accounts,
             Transfer(a, to, t, q) \/ Transfer2(a, to, t, q)
      PROVE  \A u \in Tickers : TurnOf(u)
  <2>1. PICK r \in Payers(a, to) :
          TransferThen(a, to, r, t, q, todo) \/ Transfer2Then(a, to, r, t, q, todo)
    BY <1>3 DEF Transfer, Transfer2
  <2>2. r \in Accounts /\ a \in Accounts
    BY ActiveActs DEF Payers
  <2>3. PICK N, acts : Continue([tokens EXCEPT ![t] = N], acts, todo) /\ Ruled(t, N)
    BY <2>1, <2>2, MoveRuled
  <2> QED
    BY <2>3, ContinueTurns
<1>4. ASSUME NEW t \in Tickers, NEW n \in 1 .. MaxAllocations,
             NEW allocations \in [1 .. n -> Allocations], Distribute(a, t, allocations)
      PROVE  \A u \in Tickers : TurnOf(u)
  BY <1>4, SameLedgersTurn DEF Distribute
<1> QED
  BY <1>1, <1>2, <1>3, <1>4 DEF ActionOf

LEMMA PendingTurns ==
  ASSUME Inv, Pending
  PROVE  \A u \in Tickers : TurnOf(u)
<1> DEFINE x == Head(todo)
<1>1. CASE InlineTransfer \/ InlineTransfer2
  <2>1. /\ x.from \in Accounts /\ x.ticker \in Tickers /\ x.quantity \in Amounts
        /\ \/ TransferThen(x.from, x.to, x.from, x.ticker, x.quantity, Tail(todo))
           \/ Transfer2Then(x.from, x.to, x.from, x.ticker, x.quantity, Tail(todo))
    BY <1>1, HeadTypes DEF InlineTransfer, InlineTransfer2
  <2> HIDE DEF x
  <2>2. PICK N, acts :
          Continue([tokens EXCEPT ![x.ticker] = N], acts, Tail(todo)) /\ Ruled(x.ticker, N)
    BY <2>1, MoveRuled
  <2> QED
    BY <2>1, <2>2, ContinueTurns
<1>2. CASE InlineClose
  <2> DEFINE N == [tokens[x.ticker] EXCEPT !.payer[Self] = NoAccount]
  <2>1. /\ x.ticker \in Tickers
        /\ Continue([tokens EXCEPT ![x.ticker] = N], <<>>, Tail(todo))
    BY <1>2, HeadTypes DEF InlineClose, CloseThen, CanClose
  <2>2. SameStats(tokens[x.ticker], N)
    BY <2>1, RowStats DEF Inv, TypeOK
  <2> HIDE DEF N, x
  <2>3. Ruled(x.ticker, N)
    BY <2>2 DEF Ruled
  <2> QED
    BY <2>1, <2>3, ContinueTurns
<1>3. CASE EndReaction
  BY <1>3, SameLedgersTurn DEF EndReaction
<1> QED
  BY <1>1, <1>2, <1>3 DEF Pending

LEMMA SetupTurns ==
  ASSUME Delivery, Setup
  PROVE  \A u \in Tickers : TurnOf(u)
<1>1. Idle /\ tokens = committed /\ tokens \in [Tickers -> Ledgers]
  BY DEF Setup, Create, SetConfig, RegistryChange, SetForward, Delivery, Ordered, Inv, TypeOK
<1>2. ASSUME NEW issuer \in Accounts, NEW t \in Tickers, NEW max \in Amounts,
             Create(issuer, t, max), NEW u \in Tickers
      PROVE  TurnOf(u)
  <2> DEFINE N == [tokens[t] EXCEPT !.maxSupply = max, !.issuer = issuer]
  <2>1. /\ tokens[t].maxSupply = 0
        /\ tokens' = [tokens EXCEPT ![t] = N]
        /\ todo' = <<>> \o <<>>
        /\ committed' = IF todo' = <<>> THEN tokens' ELSE committed
    BY <1>2, LedgerFields, AmountsAreNumbers DEF Create, Continue, Exists, Delivery, Inv, TypeOK,
       Amounts
  <2>2. committed' = tokens'
    BY <2>1, EmptySeq, ConcatEmptySeq
  <2>3. N.supply = 0
    <3>1. tokens[t].supply = 0
      BY <2>1, LedgerFields DEF Delivery, Inv, SupplyConserved, AddsUp, TypeOK
    <3> QED
      BY <1>1, <3>1 DEF Ledgers
  <2> HIDE DEF N
  <2>4. CASE u = t
    BY <1>1, <2>1, <2>2, <2>3, <2>4 DEF TurnOf
  <2>5. CASE u # t
    BY <1>1, <2>1, <2>2, <2>5 DEF TurnOf, Ruled, SameStats
  <2> QED
    BY <2>4, <2>5
<1>3. CASE ~ \E issuer \in Accounts, t \in Tickers, max \in Amounts : Create(issuer, t, max)
  BY <1>1, <1>3 DEF Setup, SetConfig, RegistryChange, SetForward, TurnOf
<1> QED
  BY <1>2, <1>3

LEMMA StepTurns == ASSUME LaunchInv, TokensStep PROVE \A u \in Tickers : TurnOf(u)
<1>1. Delivery /\ Inv /\ Next
  BY DEF LaunchInv, Delivery, TokensStep
<1>2. CASE Abort
  BY <1>2 DEF Abort, TurnOf
<1> QED
  BY <1>1, <1>2, ActionTurns, PendingTurns, SetupTurns DEF Next

LEMMA TokensStepInv == ASSUME LaunchInv, TokensStep PROVE LaunchInv'
<1>1. Delivery /\ Next /\ Recorded
  BY DEF LaunchInv, TokensStep, Recorded, registryVars
<1>2. Delivery'
  BY <1>1, DeliveryNext
<1> QED
  BY <1>1, <1>2, StepTurns, RecordedStep

\* An action of the registry leaves the row of a launched token as it is, or the row
\* is removed.
LEMMA RegistryStepInv == ASSUME LaunchInv, RegistryStep PROVE LaunchInv'
<1>1. /\ Delivery /\ LaunchTypeOK /\ LaunchedAsRegistered /\ Pinned
      /\ rows \in [Tickers -> R!TokenRows \cup {R!Unregistered}]
      /\ R!Next /\ Idle /\ tokens = committed
      /\ UNCHANGED <<tokens, committed, todo, tokenRegistry, forwards, launch, origin>>
      /\ registered' = [t \in Tickers |-> Found(rows'[t])]
      /\ removed' = removed \cup {t \in Tickers : HasOrigin(t) /\ rows'[t] = R!Unregistered}
  BY DEF LaunchInv, LaunchTypeOK, RegistryStep, Delivery, Ordered
<1>2. Delivery'
  BY <1>1, RegistryStepChanges, DeliveryNext
<1>3. LaunchTypeOK'
  <2>1. rows' \in [Tickers -> R!TokenRows \cup {R!Unregistered}]
    BY <1>1, RowsStep
  <2>2. removed' \subseteq Tickers
    BY <1>1 DEF LaunchTypeOK
  <2> QED
    BY <1>1, <1>2, <2>1, <2>2 DEF LaunchTypeOK, Delivery, Inv, Found, R!TokenRows, R!Unregistered
<1>4. LaunchedAsRegistered'
  <2> SUFFICES ASSUME NEW t \in Tickers, HasOrigin(t)
               PROVE  /\ origin[t].contract = Self
                      /\ t \notin removed' => rows'[t] = origin[t]
    BY <1>1 DEF LaunchedAsRegistered, HasOrigin
  <2>1. origin[t].contract = Self /\ (t \notin removed => rows[t] = origin[t])
    BY <1>1 DEF LaunchedAsRegistered
  <2>2. ASSUME t \notin removed' PROVE rows'[t] = rows[t] /\ rows[t] = origin[t]
    <3>1. rows'[t] # R!Unregistered /\ t \notin removed
      BY <1>1, <2>2
    <3>2. rows[t] = origin[t] /\ rows[t] # R!Unregistered
          /\ rows[t].contract \notin {Unset, NoAccount}
      BY <2>1, <3>1, LaunchAssumption, TokensAssumption DEF HasOrigin
    <3>3. ASSUME NEW u \in Tickers, NEW row \in R!TokenRows \cup {R!Unregistered},
                 rows' = [rows EXCEPT ![u] = row],
                 \/ rows[u] = R!Unregistered \/ row = R!Unregistered
                 \/ rows[u].contract \in {Unset, NoAccount}
          PROVE  rows'[t] = rows[t]
      BY <1>1, <3>1, <3>2, <3>3
    <3> QED
      BY <1>1, <3>2, <3>3, RowsStep
  <2> QED
    BY <2>1, <2>2
<1>5. Pinned'
  BY <1>1 DEF Pinned, HasOrigin, Final, SameStats
<1> QED
  BY <1>2, <1>3, <1>4, <1>5 DEF LaunchInv

LEMMA LaunchInvInit == LaunchInit => LaunchInv
<1> SUFFICES ASSUME LaunchInit PROVE LaunchInv
  OBVIOUS
<1>1. Delivery
  BY DeliveryInit DEF LaunchInit
<1>2. /\ rows = [t \in Tickers |-> R!Unregistered]
      /\ registered = [t \in Tickers |-> Unregistered]
      /\ origin = [t \in Tickers |-> R!Unregistered] /\ removed = {}
      /\ tokens = [t \in Tickers |-> NoLedger] /\ committed = tokens
  BY DEF LaunchInit, Init, R!Init
<1>3. LaunchTypeOK
  BY <1>1, <1>2 DEF LaunchTypeOK, Delivery, Inv, Found
<1>4. LaunchedAsRegistered /\ Pinned
  BY <1>2 DEF LaunchedAsRegistered, Pinned, HasOrigin, NoLedger
<1> QED
  BY <1>1, <1>3, <1>4 DEF LaunchInv

LEMMA LaunchInvNext == LaunchInv /\ [LaunchNext]_launchVars => LaunchInv'
<1> SUFFICES ASSUME LaunchInv, [LaunchNext]_launchVars PROVE LaunchInv'
  OBVIOUS
<1>1. CASE UNCHANGED launchVars
  <2>1. UNCHANGED vars /\ UNCHANGED <<registered, rows, origin, removed, committed, tokens>>
    BY <1>1 DEF launchVars, registryVars, vars
  <2>2. Delivery'
    BY <2>1, DeliveryNext DEF LaunchInv
  <2> QED
    BY <2>1, <2>2 DEF LaunchInv, LaunchTypeOK, LaunchedAsRegistered, Pinned, HasOrigin, Final,
                      SameStats, Delivery, Inv, Found, R!TokenRows, R!Unregistered
<1> QED
  BY <1>1, RegistryStepInv, TokensStepInv DEF LaunchNext

LEMMA LaunchInvAlways == LaunchSpec => []LaunchInv
BY LaunchInvInit, LaunchInvNext, PTL DEF LaunchSpec

----
(* What follows. *)

\* The types, for any accounts and tickers: what the tokens contract has read of
\* the registry's table is what is there.
THEOREM LaunchTypeCorrect == LaunchSpec => []LaunchTypeOK
<1>1. LaunchInv => LaunchTypeOK
  BY DEF LaunchInv
<1> QED
  BY <1>1, LaunchInvAlways, PTL

\* With the registry that its table belongs to, the tokens contract behaves as in
\* Tokens, where a row may change in any way: whatever Tokens is proved to do holds
\* of the two contracts together.
THEOREM RegistryIsTheEnvironment == LaunchSpec => Spec
<1>1. LaunchInit => Init
  BY DEF LaunchInit
<1>2. LaunchInv /\ [LaunchNext]_launchVars => [Next]_vars
  <2>1. ASSUME UNCHANGED launchVars PROVE UNCHANGED vars
    BY <2>1 DEF launchVars
  <2>2. LaunchInv => LaunchTypeOK
    BY DEF LaunchInv
  <2> QED
    BY <2>1, <2>2, RegistryStepChanges DEF LaunchNext, TokensStep
<1> QED
  BY <1>1, <1>2, LaunchInvAlways, PTL DEF LaunchSpec, Spec

\* And the registry behaves as in Registry: the tokens contract only reads of it.
THEOREM RegistryIsTheRegistry == LaunchSpec => R!Spec
<1>1. LaunchInit => R!Init
  BY DEF LaunchInit
<1>2. [LaunchNext]_launchVars => [R!Next]_R!vars
  BY DEF LaunchNext, RegistryStep, TokensStep, launchVars, registryVars, R!vars
<1> QED
  BY <1>1, <1>2, PTL DEF LaunchSpec, R!Spec

\* As long as its row is not removed, a launched token stays registered as it was.
THEOREM LaunchedStayRegistered == LaunchSpec => []LaunchedAsRegistered
<1>1. LaunchInv => LaunchedAsRegistered
  BY DEF LaunchInv
<1> QED
  BY <1>1, LaunchInvAlways, PTL

\* The supply a token is launched with is its supply ever after, whatever contracts
\* act when they are notified, and whoever registers its ticker again.
THEOREM LaunchedSupplyStays == LaunchSpec => LaunchedSupplyIsFinal
<1> DEFINE Stays == \A t \in Tickers : HasOrigin(t) =>
                      /\ committed[t].supply = committed[t].maxSupply
                      /\ committed'[t].supply = committed[t].supply
                      /\ committed'[t].maxSupply = committed[t].maxSupply
<1>1. ASSUME LaunchInv, LaunchNext PROVE Stays
  <2> SUFFICES ASSUME NEW t \in Tickers, HasOrigin(t)
               PROVE  /\ committed[t].supply = committed[t].maxSupply
                      /\ committed'[t].supply = committed[t].supply
                      /\ committed'[t].maxSupply = committed[t].maxSupply
    OBVIOUS
  <2>1. /\ Final(committed[t])
        /\ (committed[t].maxSupply > 0 /\ committed[t].issuer = Registry) =>
             SameStats(committed[t], tokens[t])
    BY <1>1 DEF LaunchInv, Pinned
  <2>2. CASE RegistryStep
    BY <2>1, <2>2 DEF RegistryStep, Final
  <2>3. CASE TokensStep
    <3>1. TurnOf(t)
      BY <1>1, <2>3, StepTurns
    <3>2. Ruled(t, tokens'[t]) => SameStats(tokens[t], tokens'[t])
      BY <2>1, LaunchAssumption DEF Ruled, Final, SameStats
    <3> QED
      BY <2>1, <3>1, <3>2 DEF TurnOf, Final, SameStats
  <2> QED
    BY <1>1, <2>2, <2>3 DEF LaunchNext
<1>2. LaunchInv /\ [LaunchNext]_launchVars => [Stays]_launchVars
  BY <1>1
<1> QED
  BY <1>2, LaunchInvAlways, PTL DEF LaunchSpec, LaunchedSupplyIsFinal

----
(* What the tokens contract holds, where no notified contract acts but the         *)
(* forwarders.                                                                     *)

\* The actions that may be pending: payments of the ticker that is distributed, and
\* what others pass on.
MayBePending ==
  {x \in Actions : /\ x.act = "transfer" => launch # NoLaunch /\ x.ticker = launch.ticker
                   /\ x.act = "transfer2" => x.from # Self}

\* Only what a distribution is about leaves the contract, and the distribution is of
\* a ticker registered to it.
Held ==
  /\ todo \in Seq(MayBePending)
  /\ launch # NoLaunch => registered[launch.ticker].contract = Self
  /\ \A t \in Tickers : (launch = NoLaunch \/ t # launch.ticker) =>
       tokens[t].balance[Self] >= committed[t].balance[Self]

\* A step that leaves the contract all it held of any other ticker.
HoldsOn ==
  /\ todo' # <<>> => committed' = committed
  /\ \A t \in Tickers : (launch = NoLaunch \/ t # launch.ticker) =>
       tokens'[t].balance[Self] >= committed[t].balance[Self]

\* Between transactions there is nothing to show.
LEMMA IdleHeld == ASSUME Delivery', todo' = <<>> PROVE Held'
<1>1. launch' = NoLaunch /\ committed' = tokens' /\ tokens' \in [Tickers -> Ledgers]
  BY DEF Delivery, Ordered, Idle, Inv, TypeOK
<1>2. \A L \in Ledgers : L.balance[Self] \in Nat
  BY LedgerFields, AmountsAreNumbers, TokensAssumption
<1>3. \A t \in Tickers : tokens'[t].balance[Self] >= committed'[t].balance[Self]
  BY <1>1, <1>2
<1>4. todo' \in Seq(MayBePending')
  BY EmptySeq
<1> QED
  BY <1>1, <1>3, <1>4 DEF Held

LEMMA SelfBalances ==
  ASSUME Inv, NEW t \in Tickers
  PROVE  tokens[t].balance[Self] \in Nat /\ committed[t].balance[Self] \in Nat
<1>1. tokens[t] \in Ledgers /\ committed[t] \in Ledgers /\ Self \in Accounts
  BY TokensAssumption DEF Inv, TypeOK
<1> QED
  BY <1>1, LedgerFields, AmountsAreNumbers

LEMMA TurnHeld ==
  ASSUME Delivery, Delivery', Held, NEW t \in Tickers, NEW N,
         NEW acts \in Seq(PassedOn), NEW rest, Rest(rest),
         Continue([tokens EXCEPT ![t] = N], acts, rest), Settle,
         \/ N.balance[Self] >= tokens[t].balance[Self]
         \/ launch # NoLaunch /\ t = launch.ticker
  PROVE  Held' /\ HoldsOn
<1>1. /\ Inv /\ tokens \in [Tickers -> Ledgers] /\ tokens' = [tokens EXCEPT ![t] = N]
      /\ todo' = acts \o rest /\ registered' = registered
      /\ todo' # <<>> => committed' = committed
      /\ launch' = IF todo' = <<>> THEN NoLaunch ELSE launch
  BY DEF Delivery, Inv, TypeOK, Continue, Settle
<1>2. Inv'
  BY DEF Delivery
<1>3. ASSUME NEW u \in Tickers, launch = NoLaunch \/ u # launch.ticker
      PROVE  tokens'[u].balance[Self] >= committed[u].balance[Self]
  <2>1. /\ tokens[u].balance[Self] \in Nat /\ committed[u].balance[Self] \in Nat
        /\ tokens[u].balance[Self] >= committed[u].balance[Self]
    BY <1>1, <1>3, SelfBalances DEF Held
  <2>2. CASE u = t
    <3>1. tokens'[u] = N /\ N.balance[Self] >= tokens[u].balance[Self]
      BY <1>1, <1>3, <2>2
    <3>2. N.balance[Self] \in Nat
      <4>1. N \in Ledgers /\ Self \in Accounts
        BY <1>2, <3>1, TokensAssumption DEF Inv, TypeOK
      <4> QED
        BY <4>1, LedgerFields, AmountsAreNumbers
    <3> QED
      BY <2>1, <3>1, <3>2
  <2>3. CASE u # t
    BY <1>1, <2>1, <2>3
  <2> QED
    BY <2>2, <2>3
<1>4. HoldsOn
  BY <1>1, <1>3 DEF HoldsOn
<1>5. CASE todo' = <<>>
  BY <1>4, <1>5, IdleHeld
<1>6. CASE todo' # <<>>
  <2>1. launch' = launch /\ committed' = committed
    BY <1>1, <1>6
  <2>2. MayBePending' = MayBePending
    BY <2>1 DEF MayBePending
  <2>3. acts \in Seq(MayBePending)
    <3>1. PassedOn \subseteq MayBePending
      BY DEF PassedOn, MayBePending
    <3> QED
      BY <3>1
  <2>4. rest \in Seq(MayBePending)
    <3>1. todo \in Seq(MayBePending)
      BY DEF Held
    <3> QED
      BY <3>1, HeadTailProperties DEF Rest, Idle
  <2>5. todo' \in Seq(MayBePending)
    BY <1>1, <2>3, <2>4, ConcatProperties
  <2> QED
    BY <1>1, <1>3, <1>4, <2>1, <2>2, <2>5 DEF Held
<1> QED
  BY <1>5, <1>6

LEMMA SupplyActionsHeld ==
  ASSUME Delivery, Delivery', Held, NEW a \in Active, NEW t \in Tickers, NEW q \in Amounts,
         \/ Issue(a, t, q) \/ IssueFixed(a, t, q) \/ SetMaxSupply(a, t, q) \/ Retire(a, t, q)
         \/ SetSupply(a, t, q)
  PROVE  Held' /\ HoldsOn
<1>1. PICK N : /\ Continue([tokens EXCEPT ![t] = N], <<>>, todo)
               /\ N.balance[Self] >= tokens[t].balance[Self]
  BY SupplyActionsRuled DEF Delivery
<1>2. UNCHANGED launch
  BY DEF Issue, IssueFixed, SetMaxSupply, Retire, SetSupply
<1>3. Settle /\ Rest(todo)
  BY <1>1, <1>2, UnchangedSettles, QueueTypes
<1> QED
  BY <1>1, <1>3, TurnHeld, EmptySeq

LEMMA RowActionsHeld ==
  ASSUME Delivery, Delivery', Held, NEW a \in Active, NEW t \in Tickers,
         \/ Close(a, t)
         \/ \E owner \in Accounts : Open(owner, t, a)
  PROVE  Held' /\ HoldsOn
<1>1. PICK N : /\ Continue([tokens EXCEPT ![t] = N], <<>>, todo)
               /\ N.balance = tokens[t].balance
  BY RowActionsRuled DEF Delivery
<1>2. UNCHANGED launch
  BY DEF Close, Open
<1>3. Settle /\ Rest(todo)
  BY <1>1, <1>2, UnchangedSettles, QueueTypes
<1>4. N.balance[Self] >= tokens[t].balance[Self]
  BY <1>1, SelfBalances DEF Delivery
<1> QED
  BY <1>1, <1>3, <1>4, TurnHeld, EmptySeq

LEMMA TransferHeld ==
  ASSUME Delivery, Delivery', Held, NEW a \in Active, NEW t \in Tickers, NEW q \in Amounts,
         NEW to \in Accounts, Transfer(a, to, t, q) \/ Transfer2(a, to, t, q)
  PROVE  Held' /\ HoldsOn
<1>1. PICK r \in Payers(a, to) :
        TransferThen(a, to, r, t, q, todo) \/ Transfer2Then(a, to, r, t, q, todo)
  BY DEF Transfer, Transfer2
<1>2. r \in Accounts /\ a \in Accounts /\ a # Self
  BY ActiveActs DEF Payers, Delivery
<1>3. PICK N : \E acts \in Seq(PassedOn) :
        /\ Continue([tokens EXCEPT ![t] = N], acts, todo)
        /\ N.balance[Self] >= tokens[t].balance[Self]
  BY <1>1, <1>2, MoveRuled DEF Delivery
<1> PICK acts \in Seq(PassedOn) : Continue([tokens EXCEPT ![t] = N], acts, todo)
  BY <1>3
<1>4. acts \in Seq(Actions) /\ UNCHANGED launch
  BY DEF PassedOn, Transfer, Transfer2
<1>5. Settle /\ Rest(todo)
  BY <1>3, <1>4, UnchangedSettles
<1> QED
  BY <1>3, <1>5, TurnHeld

\* A distribution, which is the first of its transaction.
LEMMA DistributeHeld ==
  ASSUME Delivery, Delivery', Held, Idle, NEW a \in Active, NEW t \in Tickers,
         NEW n \in 1 .. MaxAllocations, NEW allocations \in [1 .. n -> Allocations],
         Distribute(a, t, allocations)
  PROVE  Held' /\ HoldsOn
<1> DEFINE acts == Distribution(t, allocations)
<1>1. todo = <<>> /\ launch = NoLaunch /\ n \in Nat /\ Inv
  BY TokensAssumption DEF Delivery, Ordered, Idle
<1>2. /\ Continue(tokens, acts, <<>>)
      /\ launch' = [ticker |-> t, allocations |-> allocations]
      /\ registered[t].contract = Self
  BY <1>1 DEF Distribute, Distribution, CloseOf, IsOurs
<1>3. /\ acts \in Seq(Actions) /\ Len(acts) = n + 1 /\ acts # <<>>
      /\ acts[n + 1] = CloseOf(t)
      /\ \A i \in 1 .. n :
           /\ allocations[i].receiver \in Accounts /\ allocations[i].quantity \in Amounts
           /\ acts[i] = Transfer1("transfer", Self, allocations[i].receiver, t,
                                  allocations[i].quantity)
  BY <1>1, DistributionFields
<1> HIDE DEF acts
<1>4. todo' = acts /\ todo' # <<>>
  <2>1. acts \o <<>> = acts
    BY <1>3, ConcatEmptySeq
  <2> QED
    BY <1>2, <1>3, <2>1 DEF Continue
<1>5. tokens' = tokens /\ committed' = committed /\ registered' = registered
  BY <1>2, <1>4 DEF Continue
<1>6. launch' # NoLaunch /\ launch'.ticker = t
  BY <1>1, <1>2, TokensAssumption DEF Delivery, Ordered, Idle, NoLaunch
<1>7. \A i \in 1 .. n + 1 : acts[i] \in MayBePending'
  <2> SUFFICES ASSUME NEW i \in 1 .. n + 1 PROVE acts[i] \in MayBePending'
    OBVIOUS
  <2>1. acts[i] \in Actions
    BY <1>3, ElementOfSeq
  <2>2. CASE i \in 1 .. n
    <3>1. acts[i].act = "transfer" /\ acts[i].ticker = t
      <4>1. acts[i] = Transfer1("transfer", Self, allocations[i].receiver, t,
                                allocations[i].quantity)
        BY <1>3, <2>2
      <4> QED
        BY <4>1 DEF Transfer1
    <3> QED
      BY <1>6, <2>1, <3>1 DEF MayBePending
  <2>3. CASE i = n + 1
    BY <1>3, <2>1, <2>3 DEF MayBePending, CloseOf
  <2> QED
    BY <1>1, <2>2, <2>3
<1>8. todo' \in Seq(MayBePending')
  BY <1>3, <1>4, <1>7
<1>9. \A u \in Tickers : tokens[u].balance[Self] >= committed[u].balance[Self]
  BY <1>1 DEF Held
<1> QED
  BY <1>2, <1>5, <1>6, <1>8, <1>9 DEF Held, HoldsOn

LEMMA PendingHeld ==
  ASSUME Handlers = {}, Delivery, Delivery', Held, Pending
  PROVE  Held' /\ HoldsOn
<1> DEFINE x == Head(todo)
<1>1. Inv /\ ~ Idle /\ Settle /\ Rest(Tail(todo))
  BY DEF Delivery, Pending, InlineTransfer, InlineTransfer2, InlineClose, EndReaction, Rest
<1>2. x \in MayBePending
  BY <1>1, HeadTailProperties DEF Held, Idle
<1>3. CASE InlineTransfer \/ InlineTransfer2
  <2>1. /\ x.from \in Accounts /\ x.ticker \in Tickers /\ x.quantity \in Amounts
        /\ \/ TransferThen(x.from, x.to, x.from, x.ticker, x.quantity, Tail(todo))
           \/ Transfer2Then(x.from, x.to, x.from, x.ticker, x.quantity, Tail(todo))
        /\ (launch # NoLaunch /\ x.ticker = launch.ticker) \/ x.from # Self
    BY <1>1, <1>2, <1>3, HeadTypes DEF InlineTransfer, InlineTransfer2, MayBePending
  <2> HIDE DEF x
  <2>2. PICK N : \E acts \in Seq(PassedOn) :
          /\ Continue([tokens EXCEPT ![x.ticker] = N], acts, Tail(todo))
          /\ x.from # Self => N.balance[Self] >= tokens[x.ticker].balance[Self]
    BY <1>1, <2>1, MoveRuled
  <2> PICK acts \in Seq(PassedOn) :
        Continue([tokens EXCEPT ![x.ticker] = N], acts, Tail(todo))
    BY <2>2
  <2> QED
    BY <1>1, <2>1, <2>2, TurnHeld
<1>4. CASE InlineClose
  <2> DEFINE N == [tokens[x.ticker] EXCEPT !.payer[Self] = NoAccount]
  <2>1. /\ x.ticker \in Tickers
        /\ Continue([tokens EXCEPT ![x.ticker] = N], <<>>, Tail(todo))
    BY <1>1, <1>4, HeadTypes DEF InlineClose, CloseThen, CanClose
  <2> HIDE DEF x
  <2>2. N.balance = tokens[x.ticker].balance
    BY <1>1, <2>1 DEF Inv, TypeOK, Ledgers
  <2> HIDE DEF N
  <2>3. N.balance[Self] >= tokens[x.ticker].balance[Self]
    BY <1>1, <2>1, <2>2, SelfBalances
  <2> QED
    BY <1>1, <2>1, <2>3, TurnHeld, EmptySeq
<1>5. ~ EndReaction
  BY <1>1, HeadTypes DEF EndReaction
<1> QED
  BY <1>3, <1>4, <1>5 DEF Pending

LEMMA SetupHeld ==
  ASSUME Delivery, Delivery', Held, Setup \/ Abort
  PROVE  Held' /\ HoldsOn
<1>1. Inv /\ Inv' /\ (Idle => launch = NoLaunch /\ committed = tokens)
  BY DEF Delivery, Ordered
<1>2. ASSUME Setup
      PROVE  /\ Idle /\ todo' = <<>>
             /\ \A u \in Tickers : tokens'[u].balance = tokens[u].balance
  <2>1. ASSUME NEW issuer \in Accounts, NEW t \in Tickers, NEW max \in Amounts,
               Create(issuer, t, max)
        PROVE  /\ todo' = <<>> /\ Idle
               /\ \A u \in Tickers : tokens'[u].balance = tokens[u].balance
    <3> DEFINE N == [tokens[t] EXCEPT !.maxSupply = max, !.issuer = issuer]
    <3>1. todo' = <<>> \o <<>> /\ tokens' = [tokens EXCEPT ![t] = N] /\ Idle
          /\ tokens \in [Tickers -> Ledgers]
      BY <1>1, <2>1 DEF Create, Continue, Inv, TypeOK
    <3>2. N.balance = tokens[t].balance
      BY <3>1 DEF Ledgers
    <3>3. todo' = <<>>
      BY <3>1, EmptySeq, ConcatEmptySeq
    <3> HIDE DEF N
    <3> QED
      BY <3>1, <3>2, <3>3
  <2>2. CASE ~ \E issuer \in Accounts, t \in Tickers, max \in Amounts : Create(issuer, t, max)
    BY <1>2, <2>2 DEF Setup, SetConfig, RegistryChange, SetForward, Idle
  <2> QED
    BY <2>1, <2>2
<1>3. Abort => todo' = <<>> /\ tokens' = committed
  BY DEF Abort
<1>4. Held'
  BY <1>2, <1>3, IdleHeld
<1>5. \A t \in Tickers : tokens'[t].balance[Self] >= committed[t].balance[Self]
  BY <1>1, <1>2, <1>3, SelfBalances
<1> QED
  BY <1>2, <1>3, <1>4, <1>5 DEF HoldsOn

LEMMA NextHeld ==
  ASSUME Handlers = {}, Delivery, Held, Next
  PROVE  Held' /\ HoldsOn
<1>1. Delivery' /\ Inv
  BY DeliveryNext DEF Delivery
<1>2. ASSUME NEW a \in Active, ActionOf(a) PROVE Held' /\ HoldsOn
  <2>1. Idle
    BY <1>1, ActiveReacts
  <2> QED
    BY <1>1, <1>2, <2>1, SupplyActionsHeld, RowActionsHeld, TransferHeld, DistributeHeld
       DEF ActionOf
<1> QED
  BY <1>1, <1>2, SetupHeld, PendingHeld DEF Next

LEMMA HeldNext == Handlers = {} /\ LaunchInv /\ Held /\ [LaunchNext]_launchVars => Held'
<1> SUFFICES ASSUME Handlers = {}, LaunchInv, Held, [LaunchNext]_launchVars PROVE Held'
  OBVIOUS
<1>1. Delivery /\ Delivery'
  BY LaunchInvNext DEF LaunchInv
<1>2. CASE UNCHANGED launchVars
  BY <1>2 DEF launchVars, vars, Held, MayBePending
<1>3. CASE RegistryStep
  <2>1. todo' = <<>>
    BY <1>3 DEF RegistryStep, Idle
  <2> QED
    BY <1>1, <2>1, IdleHeld
<1>4. CASE TokensStep
  BY <1>1, <1>4, NextHeld DEF TokensStep
<1> QED
  BY <1>2, <1>3, <1>4 DEF LaunchNext

LEMMA HeldInit == LaunchInit => Held
<1> SUFFICES ASSUME LaunchInit PROVE Held
  OBVIOUS
<1>1. todo = <<>> /\ launch = NoLaunch /\ committed = tokens /\ Inv
  BY InitInv DEF LaunchInit, Init
<1>2. \A t \in Tickers : tokens[t].balance[Self] >= committed[t].balance[Self]
  BY <1>1, SelfBalances
<1> QED
  BY <1>1, <1>2, EmptySeq DEF Held

\* What the contract holds of a token leaves it in a distribution only, to the last
\* token, while the ticker is registered to the contract: if no contract but the
\* forwarders acts when it is notified.
THEOREM HeldTillDistributed == Handlers = {} => (LaunchSpec => HeldUntilDistributed)
<1> DEFINE Distributed(t) ==
             /\ launch # NoLaunch /\ launch.ticker = t
             /\ rows[t] # R!Unregistered /\ rows[t].contract = Self
             /\ committed'[t].balance[Self] = 0
           OnlyDistributed == \A t \in Tickers :
             committed'[t].balance[Self] < committed[t].balance[Self] => Distributed(t)
<1> SUFFICES ASSUME Handlers = {} PROVE LaunchSpec => HeldUntilDistributed
  OBVIOUS
<1>1. LaunchInit => LaunchInv /\ Held
  BY LaunchInvInit, HeldInit
<1>2. LaunchInv /\ Held /\ [LaunchNext]_launchVars => (LaunchInv /\ Held)'
  BY LaunchInvNext, HeldNext
<1>3. ASSUME LaunchInv, Held, LaunchNext PROVE OnlyDistributed
  <2> SUFFICES ASSUME NEW t \in Tickers,
                      committed'[t].balance[Self] < committed[t].balance[Self]
               PROVE  Distributed(t)
    OBVIOUS
  <2>1. /\ Delivery /\ Delivery' /\ Inv /\ Inv' /\ LaunchTypeOK
        /\ Self \in Accounts
    BY <1>3, LaunchInvNext, TokensAssumption DEF LaunchInv, Delivery
  <2>2. /\ committed[t].balance[Self] \in Nat /\ tokens'[t].balance[Self] \in Nat
        /\ tokens'[t] \in Ledgers
    <3>1. tokens'[t] \in Ledgers
      BY <2>1 DEF Inv, TypeOK
    <3>2. tokens'[t].balance[Self] \in Nat
      BY <2>1, <3>1, LedgerFields, AmountsAreNumbers
    <3> QED
      BY <2>1, <3>1, <3>2, SelfBalances
  <2>3. committed' # committed
    BY <2>2
  <2>4. Next /\ HoldsOn
    BY <1>3, <2>1, <2>3, NextHeld DEF LaunchNext, RegistryStep, TokensStep
  <2>5. todo' = <<>> /\ committed' = tokens'
    BY <2>1, <2>3, <2>4 DEF HoldsOn, Delivery, Ordered, Idle
  <2>6. launch # NoLaunch /\ launch.ticker = t
    BY <2>2, <2>4, <2>5 DEF HoldsOn
  <2>7. rows[t] # R!Unregistered /\ rows[t].contract = Self
    <3>1. Found(rows[t]).contract = Self /\ rows[t] \in R!TokenRows \cup {R!Unregistered}
      BY <1>3, <2>1, <2>6 DEF Held, LaunchTypeOK
    <3> QED
      BY <3>1, FoundFields
  <2>8. ~ HasRow(tokens'[t], Self)
    BY <2>1, <2>3, <2>4, <2>5, <2>6, NothingLeft
  <2>9. tokens'[t].balance[Self] = 0
    BY <2>1, <2>8 DEF Inv, SupplyConserved, AddsUp
  <2> QED
    BY <2>5, <2>6, <2>7, <2>9
<1>4. LaunchInv /\ Held /\ [LaunchNext]_launchVars => [OnlyDistributed]_launchVars
  BY <1>3
<1> QED
  BY <1>1, <1>2, <1>4, PTL DEF LaunchSpec, HeldUntilDistributed

=================================================================================
