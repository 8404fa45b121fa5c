--------------------------------- MODULE Tokens ---------------------------------
(******************************************************************************)
(* The tokens contract (contracts/tokens): a ledger per ticker, transfers,    *)
(* and the launch of a registered token, whose supply the contract holds      *)
(* until its creator distributes it; with the receiving contracts             *)
(* (contracts/mockreceiver) that forward what the distribution pays them.     *)
(*                                                                            *)
(* One step is one action with its notifications.  An action may queue inline *)
(* actions, which run one by one, depth first, before the transaction         *)
(* commits; todo holds those still to run.  A contract that is notified of a  *)
(* transfer may act in turn, at that point of the queue.  Any failure rolls   *)
(* the transaction back to the ledgers as they were committed before it.      *)
(*                                                                            *)
(* The precision of a symbol is left out: every handler refuses a quantity    *)
(* whose precision is not the ticker's before it changes anything.            *)
(******************************************************************************)
EXTENDS AssetTotals, Sequences

CONSTANTS
  Accounts,         \* every account on the chain
  Self,             \* the account the contract is deployed to
  Registry,         \* the account the registry contract is deployed to
  NoAccount,        \* the empty name
  Signers,          \* accounts that sign transactions; Self signs only setup actions
  Handlers,         \* accounts with a contract that may act when notified of a transfer
  Forwarders,       \* accounts the mockreceiver contract is deployed to
  Tickers,
  MaxAllocations,   \* bound: allocations in one distribution
  MaxPending        \* bound: inline actions waiting at one time

ASSUME TokensAssumption ==
  /\ IsFiniteSet(Accounts)
  /\ {Self, Registry} \cup Signers \cup Handlers \cup Forwarders \subseteq Accounts
  /\ NoAccount \notin Accounts
  /\ Self \notin Signers \cup Handlers \cup Forwarders /\ Self # Registry
  /\ Handlers \cap Forwarders = {}
  /\ MaxAllocations \in Nat /\ MaxPending \in Nat

VARIABLES
  tokens,           \* per ticker: its stat row and the accounts' rows
  committed,        \* tokens as the last committed transaction left it
  todo,             \* the inline actions still to run, first one first
  tokenRegistry,    \* config.registry
  registered,       \* the rows of the registry contract's tokens table
  forwards,         \* the mockreceivers' configurations
  launch            \* history: the distribution the pending actions belong to

vars == <<tokens, committed, todo, tokenRegistry, registered, forwards, launch>>

\* An account without a row of a ticker has balance 0 and payer NoAccount.
Ledgers == [supply : Amounts, maxSupply : Amounts, issuer : Accounts \cup {NoAccount},
            balance : [Accounts -> Amounts], payer : [Accounts -> Accounts \cup {NoAccount}]]

NoLedger == [supply |-> 0, maxSupply |-> 0, issuer |-> NoAccount,
             balance |-> [a \in Accounts |-> 0], payer |-> [a \in Accounts |-> NoAccount]]

Unregistered == [creator |-> NoAccount, contract |-> NoAccount]
Registrations == {Unregistered} \cup [creator : Accounts, contract : {Self, NoAccount}]

Forwards == [tokencontract : {Self, NoAccount}, sender : Accounts \cup {NoAccount},
             destination : Accounts \cup {NoAccount}]
NoForward == [tokencontract |-> NoAccount, sender |-> NoAccount, destination |-> NoAccount]

Allocations == [receiver : Accounts, quantity : Amounts \ {0}]
Launches == [ticker : Tickers, allocations : Seq(Allocations)] \cup
              {[ticker |-> NoAccount, allocations |-> <<>>]}
NoLaunch == [ticker |-> NoAccount, allocations |-> <<>>]

Idle == todo = <<>>
Exists(t) == tokens[t].maxSupply > 0
HasRow(L, a) == L.payer[a] # NoAccount

Init ==
  /\ tokens = [t \in Tickers |-> NoLedger]
  /\ committed = tokens
  /\ todo = <<>>
  /\ tokenRegistry = NoAccount
  /\ registered = [t \in Tickers |-> Unregistered]
  /\ forwards = [f \in Forwarders |-> NoForward]
  /\ launch = NoLaunch

----
(* A ticker's ledger. *)

\* Fault: a debit that does not look at what the row holds.
CanSubUnchecked(L, owner, q) == HasRow(L, owner)

CanSub(L, owner, q) == HasRow(L, owner) /\ L.balance[owner] >= q
CanAdd(L, owner, q) == L.balance[owner] + q <= MaxAmount

\* The row's payer becomes p: its owner in sub_balance, the same in the other.
SubBalance(L, owner, q, p) ==
  [L EXCEPT !.balance = Debit(@, owner, q), !.payer[owner] = p]

\* The payer pays for the row only if there is none yet.
AddBalance(L, owner, q, p) ==
  [L EXCEPT !.balance = Credit(@, owner, q),
            !.payer[owner] = IF HasRow(L, owner) THEN @ ELSE p]

(* The transaction. *)

Transfer1(act, from, to, t, q) ==
  [act |-> act, from |-> from, to |-> to, ticker |-> t, quantity |-> q]

Reacts(a) == IF a \in Handlers THEN <<[act |-> "react", who |-> a]>> ELSE <<>>

\* mockreceiver's on_transfer when it is paid; L is the ticker's ledger by then.
Accepts(f, from, L) ==
  /\ forwards[f].tokencontract = Self
  /\ forwards[f].sender = from
  /\ forwards[f].destination \in Accounts /\ HasRow(L, forwards[f].destination)

\* Fault: forwarding by transfer, which rebills the forwarder's own row to it.
ForwardByTransfer(f, t, q) == <<Transfer1("transfer", f, forwards[f].destination, t, q)>>

Forward(f, t, q) == <<Transfer1("transfer2", f, forwards[f].destination, t, q)>>

\* The action leaves the ledgers as new and queues acts before what rest holds;
\* with nothing queued the transaction commits.
Continue(new, acts, rest) ==
  /\ tokens' = new
  /\ todo' = acts \o rest
  /\ Len(todo') <= MaxPending
  /\ committed' = IF todo' = <<>> THEN new ELSE committed
  /\ UNCHANGED <<tokenRegistry, registered, forwards>>

\* Who may act now: a signer between transactions, or the contract whose turn
\* to react has come.
Active ==
  IF Idle THEN Signers
  ELSE IF Head(todo).act = "react" THEN {Head(todo).who} ELSE {}

----
(* contracts/tokens/src/standard.cpp *)

Create(issuer, t, max) ==
  /\ Idle
  /\ max > 0
  /\ ~ Exists(t)
  /\ Continue([tokens EXCEPT ![t] = [@ EXCEPT !.maxSupply = max, !.issuer = issuer]], <<>>, <<>>)
  /\ UNCHANGED launch

Issue(to, t, q) ==
  /\ Exists(t)
  /\ to = tokens[t].issuer
  /\ q > 0
  /\ q <= tokens[t].maxSupply - tokens[t].supply
  /\ CanAdd(tokens[t], to, q)
  /\ LET minted == [tokens[t] EXCEPT !.supply = @ + q]
     IN Continue([tokens EXCEPT ![t] = AddBalance(minted, to, q, to)], <<>>, todo)
  /\ UNCHANGED launch

IssueFixed(to, t, supply) == Issue(to, t, supply - tokens[t].supply)

SetMaxSupply(issuer, t, max) ==
  /\ Exists(t)
  /\ max > 0
  /\ issuer = tokens[t].issuer
  /\ max >= tokens[t].supply
  /\ Continue([tokens EXCEPT ![t] = [@ EXCEPT !.maxSupply = max]], <<>>, todo)
  /\ UNCHANGED launch

Retire(issuer, t, q) ==
  /\ Exists(t)
  /\ issuer = tokens[t].issuer
  /\ q > 0
  /\ CanSub(tokens[t], issuer, q)
  /\ LET burnt == [tokens[t] EXCEPT !.supply = @ - q]
     IN Continue([tokens EXCEPT ![t] = SubBalance(burnt, issuer, q, issuer)], <<>>, todo)
  /\ UNCHANGED launch

\* The checks of transfer, with those of the two balances; transfer2 makes the same.
CanTransfer(from, to, t, q) ==
  /\ from # to /\ q > 0 /\ Exists(t)
  /\ to \in Accounts
  /\ CanSub(tokens[t], from, q)
  /\ CanAdd(tokens[t], to, q)

\* transfer, its notifications included: from's contract and to's may react, and
\* a forwarder that is paid accepts and queues its transfer2, or refuses.
TransferThen(from, to, payer, t, q, rest) ==
  LET moved == AddBalance(SubBalance(tokens[t], from, q, from), to, q, payer) IN
    /\ CanTransfer(from, to, t, q)
    /\ to \in Forwarders => Accepts(to, from, moved)
    /\ Continue([tokens EXCEPT ![t] = moved],
                Reacts(from) \o (IF to \in Forwarders THEN Forward(to, t, q) ELSE Reacts(to)),
                rest)

\* transfer2 (registry.cpp) leaves the payer of from's row as it is.  The
\* mockreceiver's handler is for transfer and does not run.
Transfer2Then(from, to, payer, t, q, rest) ==
  LET moved == AddBalance(SubBalance(tokens[t], from, q, tokens[t].payer[from]), to, q, payer)
  IN
    /\ CanTransfer(from, to, t, q)
    /\ Continue([tokens EXCEPT ![t] = moved], Reacts(from) \o Reacts(to), rest)

\* The receiver pays for its row when it signed as well.
Payers(from, to) == {from} \cup (IF Idle /\ to \in Signers THEN {to} ELSE {})

Transfer(from, to, t, q) ==
  /\ \E payer \in Payers(from, to) : TransferThen(from, to, payer, t, q, todo)
  /\ UNCHANGED launch

Transfer2(from, to, t, q) ==
  /\ \E payer \in Payers(from, to) : Transfer2Then(from, to, payer, t, q, todo)
  /\ UNCHANGED launch

\* Opening a row that is there already succeeds and changes nothing.
Open(owner, t, payer) ==
  /\ Exists(t)
  /\ ~ HasRow(tokens[t], owner)
  /\ Continue([tokens EXCEPT ![t] = [@ EXCEPT !.payer[owner] = payer]], <<>>, todo)
  /\ UNCHANGED launch

\* Fault: a row erased with tokens in it.
CloseAnyThen(owner, t, rest) ==
  /\ HasRow(tokens[t], owner)
  /\ Continue([tokens EXCEPT ![t] = [@ EXCEPT !.payer[owner] = NoAccount, !.balance[owner] = 0]],
              <<>>, rest)

CanClose(owner, t) == HasRow(tokens[t], owner) /\ tokens[t].balance[owner] = 0

CloseThen(owner, t, rest) ==
  /\ CanClose(owner, t)
  /\ Continue([tokens EXCEPT ![t] = [@ EXCEPT !.payer[owner] = NoAccount]], <<>>, rest)

Close(owner, t) == CloseThen(owner, t, todo) /\ UNCHANGED launch

----
(* contracts/tokens/src/registry.cpp *)

SetConfig(r) ==
  /\ Idle
  /\ tokenRegistry' = r
  /\ UNCHANGED <<tokens, committed, todo, registered, forwards, launch>>

\* Fault: a ticker of this registry, whatever contract it is registered to.
IsOursAnyContract(t, creator) ==
  /\ tokenRegistry = Registry
  /\ registered[t] # Unregistered /\ registered[t].creator = creator

\* get_token, and the check that the token is registered to this contract: only
\* the registry has a table to look in.
IsOurs(t, creator) ==
  /\ tokenRegistry = Registry
  /\ registered[t] = [creator |-> creator, contract |-> Self]

\* Fault: a supply whose issuer is the creator and not the registry.
SetSupplyForCreator(creator, t, supply) ==
  /\ IsOurs(t, creator)
  /\ supply > 0
  /\ ~ Exists(t)
  /\ CanAdd(tokens[t], Self, supply)
  /\ LET minted == [tokens[t] EXCEPT !.supply = supply, !.maxSupply = supply,
                                     !.issuer = creator]
     IN Continue([tokens EXCEPT ![t] = AddBalance(minted, Self, supply, creator)], <<>>, todo)
  /\ UNCHANGED launch

SetSupply(creator, t, supply) ==
  /\ IsOurs(t, creator)
  /\ supply > 0
  /\ ~ Exists(t)
  /\ CanAdd(tokens[t], Self, supply)
  /\ LET minted == [tokens[t] EXCEPT !.supply = supply, !.maxSupply = supply,
                                     !.issuer = tokenRegistry]
     IN Continue([tokens EXCEPT ![t] = AddBalance(minted, Self, supply, creator)], <<>>, todo)
  /\ UNCHANGED launch

\* The sum of the allocations to the receivers in A.
AllottedTo(allocations, A) ==
  Total([i \in {j \in DOMAIN allocations : allocations[j].receiver \in A} |->
           allocations[i].quantity])

Allotted(allocations) == AllottedTo(allocations, Accounts)

\* Fault: a distribution that does not compare the allocations with the supply.
DistributeAnyTotal(creator, t, allocations) ==
  /\ IsOurs(t, creator)
  /\ Exists(t)
  /\ tokens[t].supply = tokens[t].maxSupply
  /\ HasRow(tokens[t], Self)
  /\ tokens[t].balance[Self] = tokens[t].maxSupply
  /\ \A i \in DOMAIN allocations : HasRow(tokens[t], allocations[i].receiver)
  /\ Continue(tokens,
              [i \in 1 .. Len(allocations) |->
                 Transfer1("transfer", Self, allocations[i].receiver, t, allocations[i].quantity)]
                \o <<[act |-> "close", ticker |-> t]>>, todo)
  /\ launch' = IF Idle THEN [ticker |-> t, allocations |-> allocations] ELSE launch

\* Fault: a distribution that leaves the contract's own row open.
DistributeUnclosed(creator, t, allocations) ==
  /\ IsOurs(t, creator)
  /\ Exists(t)
  /\ tokens[t].supply = tokens[t].maxSupply
  /\ HasRow(tokens[t], Self)
  /\ tokens[t].balance[Self] = tokens[t].maxSupply
  /\ Allotted(allocations) = tokens[t].maxSupply
  /\ \A i \in DOMAIN allocations : HasRow(tokens[t], allocations[i].receiver)
  /\ Continue(tokens,
              [i \in 1 .. Len(allocations) |->
                 Transfer1("transfer", Self, allocations[i].receiver, t, allocations[i].quantity)],
              todo)
  /\ launch' = IF Idle THEN [ticker |-> t, allocations |-> allocations] ELSE launch

\* The checks all look at the ledger before the first transfer has run.
Distribute(creator, t, allocations) ==
  /\ IsOurs(t, creator)
  /\ Exists(t)
  /\ tokens[t].supply = tokens[t].maxSupply
  /\ HasRow(tokens[t], Self)
  /\ tokens[t].balance[Self] = tokens[t].maxSupply
  /\ Allotted(allocations) = tokens[t].maxSupply
  /\ \A i \in DOMAIN allocations : HasRow(tokens[t], allocations[i].receiver)
  /\ Continue(tokens,
              [i \in 1 .. Len(allocations) |->
                 Transfer1("transfer", Self, allocations[i].receiver, t, allocations[i].quantity)]
                \o <<[act |-> "close", ticker |-> t]>>, todo)
  /\ launch' = IF Idle THEN [ticker |-> t, allocations |-> allocations] ELSE launch

----
(* The queue: the pending action runs with the authority of its sender alone. *)

Settle == launch' = IF todo' = <<>> THEN NoLaunch ELSE launch

InlineTransfer ==
  /\ ~ Idle /\ Head(todo).act = "transfer"
  /\ LET x == Head(todo)
     IN TransferThen(x.from, x.to, x.from, x.ticker, x.quantity, Tail(todo))
  /\ Settle

InlineTransfer2 ==
  /\ ~ Idle /\ Head(todo).act = "transfer2"
  /\ LET x == Head(todo)
     IN Transfer2Then(x.from, x.to, x.from, x.ticker, x.quantity, Tail(todo))
  /\ Settle

InlineClose ==
  /\ ~ Idle /\ Head(todo).act = "close"
  /\ CloseThen(Self, Head(todo).ticker, Tail(todo))
  /\ Settle

\* A notified contract has done what it wanted to do, if anything.
EndReaction ==
  /\ ~ Idle /\ Head(todo).act = "react"
  /\ Continue(tokens, <<>>, Tail(todo))
  /\ Settle

\* Something in the transaction failed.
Abort ==
  /\ ~ Idle
  /\ tokens' = committed
  /\ todo' = <<>>
  /\ launch' = NoLaunch
  /\ UNCHANGED <<committed, tokenRegistry, registered, forwards>>

----
(* The other contracts. *)

\* external: the registry's row of a ticker comes, goes or changes.
RegistryChange(t, row) ==
  /\ Idle
  /\ registered' = [registered EXCEPT ![t] = row]
  /\ UNCHANGED <<tokens, committed, todo, tokenRegistry, forwards, launch>>

\* mockreceiver's setconfig
SetForward(f, forward) ==
  /\ Idle
  /\ forwards' = [forwards EXCEPT ![f] = forward]
  /\ UNCHANGED <<tokens, committed, todo, tokenRegistry, registered, launch>>

----
ActionOf(a) ==
  \/ \E t \in Tickers, q \in Amounts :
       \/ Issue(a, t, q) \/ IssueFixed(a, t, q) \/ SetMaxSupply(a, t, q) \/ Retire(a, t, q)
       \/ SetSupply(a, t, q)
       \/ \E to \in Accounts : Transfer(a, to, t, q) \/ Transfer2(a, to, t, q)
  \/ \E t \in Tickers :
       \/ Close(a, t)
       \/ \E owner \in Accounts : Open(owner, t, a)
       \/ \E n \in 1 .. MaxAllocations : \E allocations \in [1 .. n -> Allocations] :
            Distribute(a, t, allocations)

Setup ==
  \/ \E issuer \in Accounts, t \in Tickers, max \in Amounts : Create(issuer, t, max)
  \/ \E r \in {NoAccount, Registry} : SetConfig(r)
  \/ \E t \in Tickers, row \in Registrations : RegistryChange(t, row)
  \/ \E f \in Forwarders, forward \in Forwards : SetForward(f, forward)

Pending == InlineTransfer \/ InlineTransfer2 \/ InlineClose \/ EndReaction

Next == Setup \/ Pending \/ Abort \/ \E a \in Active : ActionOf(a)

Spec == Init /\ [][Next]_vars

----
(* Properties. *)

Actions ==
  [act : {"transfer", "transfer2"}, from : Accounts, to : Accounts,
   ticker : Tickers, quantity : Amounts]
    \cup [act : {"close"}, ticker : Tickers] \cup [act : {"react"}, who : Handlers]

TypeOK ==
  /\ tokens \in [Tickers -> Ledgers]
  /\ committed \in [Tickers -> Ledgers]
  /\ todo \in Seq(Actions)
  /\ tokenRegistry \in {NoAccount, Registry}
  /\ registered \in [Tickers -> Registrations]
  /\ forwards \in [Forwarders -> Forwards]
  /\ launch \in Launches

\* A ledger adds up: the balances sum to the supply, which is within its maximum,
\* and an account without a row has no balance.
AddsUp(L) ==
  /\ Total(L.balance) = L.supply
  /\ L.supply <= L.maxSupply
  /\ \A a \in Accounts : ~ HasRow(L, a) => L.balance[a] = 0

\* At every point of a transaction, between its inline actions too, and in the
\* ledgers a failure rolls back to, no token has appeared or vanished: not when
\* rows open and close, supplies are set, issued, retired or distributed.
SupplyConserved == \A t \in Tickers : AddsUp(tokens[t]) /\ AddsUp(committed[t])

\* The account an allocation to a ends up with.
Destination(a) == IF a \in Forwarders THEN forwards[a].destination ELSE a

\* What a is to get from the allocations, as receiver or as a destination.
Due(a) == AllottedTo(launch.allocations, {r \in Accounts : Destination(r) = a})

\* A distribution that commits leaves the contract neither tokens nor its row, and
\* whatever the notified contracts did meanwhile, every other account has gained
\* all that its allocations, and those it is the forwarding destination of, add
\* up to.  As the supply is conserved, no account can have gained more than that
\* unless a contract passed on its own share.
AllocationsDelivered ==
  [][(launch # NoLaunch /\ todo' = <<>> /\ committed' # committed) =>
       LET was == committed[launch.ticker]
           now == tokens'[launch.ticker]
       IN /\ ~ HasRow(now, Self)
          /\ \A a \in Accounts \ ({Self} \cup Handlers) :
               now.balance[a] >= was.balance[a] + Due(a)]_vars

\* Where no notified contract acts but the forwarders, every other account has gained
\* neither less nor more than that, whatever the forwarders were paid and passed on.
AllocationsExact ==
  [][(launch # NoLaunch /\ todo' = <<>> /\ committed' # committed) =>
       LET was == committed[launch.ticker]
           now == tokens'[launch.ticker]
       IN /\ ~ HasRow(now, Self)
          /\ \A a \in Accounts \ {Self} : now.balance[a] = was.balance[a] + Due(a)]_vars

\* "To prevent these contracts from consuming their own RAM" (receiver.cpp:33):
\* once a transaction has committed, no account row is at the expense of the
\* tokens contract or of a forwarder.
ContractsPayNoRam ==
  Idle => \A t \in Tickers, a \in Accounts : tokens[t].payer[a] \notin {Self} \cup Forwarders

\* "Ensure each allocation goes to an account with an open balance"
\* (tokens/src/registry.cpp:55): a transfer a distribution has queued finds its
\* receiver's row open.
AllocationsReachOpenRows ==
  (~ Idle /\ Head(todo).act = "transfer" /\ Head(todo).from = Self) =>
    HasRow(tokens[Head(todo).ticker], Head(todo).to)

\* The next inline action passes its checks.  These are the guards of InlineTransfer
\* and InlineClose for accounts whose contracts are not notified, so that nothing is
\* queued and the queue only gets shorter.
NextPasses ==
  LET x == Head(todo) IN
    /\ ~ Idle
    /\ \/ x.act = "transfer" /\ CanTransfer(x.from, x.to, x.ticker, x.quantity)
       \/ x.act = "close" /\ CanClose(Self, x.ticker)
    /\ Len(Tail(todo)) <= MaxPending

\* The receivers of the distribution are neither contracts nor the contract itself.
OrdinaryReceivers ==
  \A i \in DOMAIN launch.allocations :
    launch.allocations[i].receiver \notin Handlers \cup Forwarders \cup {Self}

\* The checks distribute makes are the only ones: no inline action of a distribution
\* to ordinary receivers that it accepted can fail, down to the last one.
AcceptedDistributionCompletes ==
  (launch # NoLaunch /\ OrdinaryReceivers) => NextPasses

================================================================================
