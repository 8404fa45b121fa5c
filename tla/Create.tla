--------------------------------- MODULE Create ---------------------------------
(******************************************************************************)
(* The account creation contract (contracts/create).  It keeps no table: a    *)
(* transfer to it becomes, within one transaction, a new account, its RAM and *)
(* a refund, which are inline actions that run after the notification that    *)
(* sends them, and after those of the payer's own contract, if it has one.    *)
(*                                                                            *)
(* RamMarket has the prices and PublicKey the keys; the system contract and   *)
(* core.vaulta, which sell the RAM, are external.  A transaction is carried   *)
(* out to its end before another one begins, and a failing action rolls all   *)
(* of it back.                                                                *)
(******************************************************************************)
EXTENDS RamMarket, PublicKey, FiniteSets

CONSTANTS
  Accounts,         \* those on the chain at first
  Create,           \* the account the contract is deployed to
  Ram,              \* eosio.ram
  Proxy,            \* core.vaulta: it sells RAM, and it is the contract of
                    \* the token the contract accepts
  Contracts,        \* contracts whose transfers reach the contract
  Payers,           \* accounts that pay
  Reactive,         \* those with a contract that acts when they pay
  Names,            \* well-formed names that a memo may ask for
  Creatable,        \* those that newaccount makes without more authority
  Texts,            \* texts that may or may not be those of keys
  SentTexts,        \* those that the payers' memos have
  KnownKeys,        \* every key that one of the texts encodes
  NoName,           \* a memo without a separator, or a name too short or long
  BytesForCreation, \* what an account is bought
  Usage,            \* what an account uses
  Markets,          \* the reserves that other trades may lead to
  Rooms,            \* how many rows the contract may have RAM for
  Quantities,       \* what a payer may pay
  InitialCoins,
  NoDeal

BypassMemo == [account |-> NoName, key |-> [prefix |-> "bypass", type |-> "", chars |-> <<>>]]
Memos == [account : Names \cup {NoName}, key : SentTexts] \cup {BypassMemo}

\* The texts that stand for a key, with the key.
Readings == UNION { {[text |-> text, key |-> key] : key \in KeysOf(text)} : text \in Texts }

ASSUME CreateAssumption ==
  /\ {Create, Ram, Proxy} \cup Payers \subseteq Accounts
  /\ Cardinality({Create, Ram, Proxy}) = 3
  /\ Create \notin Payers
  /\ Proxy \in Contracts
  /\ Reactive \subseteq Payers
  /\ SentTexts \subseteq Texts
  /\ Names \cap Accounts = {} /\ Creatable \subseteq Names /\ NoName \notin Names
  /\ BytesForCreation \in Nat \ {0} /\ Usage \in Nat
  /\ Quantities \subseteq Nat \ {0}
  /\ Markets \subseteq [base : Nat \ {0}, quote : Nat]
  /\ Rooms \subseteq Nat
  /\ InitialCoins \in [Accounts \cup Names -> Nat]
  /\ \A n \in Names : InitialCoins[n] = 0

VARIABLES
  coins,        \* external: balances of the token the contract accepts
  accounts,     \* external: the accounts that exist
  ram,          \* external: the bytes bought for each account, and the
                \* reserves they were bought from
  market,       \* external: the reserves of the system's RAM market
  room,         \* external: rows that the contract's own RAM is enough for
  todo,         \* external: the inline actions the transaction still has to run
  saved,        \* external: the state the transaction began in
  deals,        \* the log of logcreation, with the reserves of the price quoted
  kept          \* history: coins the contract was sent and creates nothing for

vars == <<coins, accounts, ram, market, room, todo, saved, deals, kept>>

NoRam == [bytes |-> 0, from |-> [base |-> 0, quote |-> 0]]

Init ==
  /\ coins = InitialCoins
  /\ accounts = Accounts
  /\ ram = [n \in Names |-> NoRam]
  /\ market \in Markets
  /\ room \in Rooms
  /\ todo = <<>>
  /\ saved = <<>>
  /\ deals = [n \in Names |-> NoDeal]
  /\ kept = coins[Create]

----
(* Transactions. *)

Idle == todo = <<>>

\* The payer's contract, at its turn.
Acting(account) == ~ Idle /\ Head(todo).do = "react" /\ Head(todo).account = account

\* What from may do next: begin a transaction, or act within one.
Turn(from) == Idle \/ Acting(from)

\* What is left of the transaction once the turn is taken.
Rest == IF Idle THEN <<>> ELSE Tail(todo)

State == [coins |-> coins, accounts |-> accounts, ram |-> ram, market |-> market,
          room |-> room, deals |-> deals, kept |-> kept]

\* The transaction goes on with what a step sends; it is over when all has run.
Proceed(sent) ==
  /\ todo' = sent \o Rest
  /\ saved' = IF todo' = <<>> THEN <<>> ELSE IF Idle THEN State ELSE saved

\* external: the token's contract moves q; another contract's tokens are not kept
\* track of.  The payer's contract is notified, and its actions come first.
Transfer(contract, from, q) ==
  IF contract = Proxy
  THEN /\ coins[from] >= q
       /\ coins' = [coins EXCEPT ![from] = @ - q, ![Create] = @ + q]
  ELSE UNCHANGED coins

Reaction(from) ==
  IF from \in Reactive
  THEN << [do |-> "react", account |-> from, quantity |-> 0] >>
  ELSE << >>

(* The contract. *)

\* parsememo, and is_account at the time of the notification.
ParseMemo(memo) ==
  {reading.key : reading \in {r \in Readings : /\ memo.account \in Names \ accounts
                                              /\ memo.key = r.text}}

\* Fault: the market's fee is forgotten.
PriceWithoutFee(reserves) == RamCost(reserves, BytesForCreation)

\* The price of an account (estimatecost).
Price(reserves) == RamCostWithFee(reserves, BytesForCreation)

\* Fault: small change is not worth a transfer.
RefundUnlessSmall(name, excess) ==
  IF excess > 1
  THEN << [do |-> "transfer", account |-> name, quantity |-> excess] >>
  ELSE << >>

Refund(name, excess) ==
  IF excess > 0
  THEN << [do |-> "transfer", account |-> name, quantity |-> excess] >>
  ELSE << >>

\* What ontransfer sends: newaccount, buyram, a refund if there is one, and
\* the log entry.
Creation(from, name, text, key, q, cost) ==
  << [do |-> "newaccount", account |-> name, quantity |-> 0, key |-> key],
     [do |-> "buyram", account |-> name, quantity |-> cost] >>
  \o Refund(name, q - cost)
  \o << [do |-> "logcreation", account |-> name, quantity |-> 0,
         deal |-> [from |-> from, text |-> text, key |-> key, paid |-> q, ram |-> cost,
                   excess |-> q - cost, quoted |-> market]] >>

\* ontransfer: transfers it leaves alone.
Retain(contract, from, q, memo) ==
  /\ IF from \in {Ram, Proxy} THEN Idle ELSE Turn(from) /\ memo = BypassMemo
  /\ Transfer(contract, from, q)
  /\ kept' = IF contract = Proxy THEN kept + q ELSE kept
  /\ Proceed(Reaction(from))
  /\ UNCHANGED <<accounts, ram, market, room, deals>>

\* Fault: whose tokens they are is not looked at.
PayWithAnyToken(contract, from, q, memo) ==
  /\ from \notin {Ram, Proxy} /\ Turn(from)
  /\ memo # BypassMemo
  /\ Transfer(contract, from, q)
  /\ Priced(market.base, BytesForCreation)
  /\ q >= Price(market)
  /\ \E key \in ParseMemo(memo) :
       Proceed(Reaction(from) \o Creation(from, memo.account, memo.key, key, q, Price(market)))
  /\ UNCHANGED <<accounts, ram, market, room, deals, kept>>

\* ontransfer: a payment for an account, priced at this moment.
Pay(contract, from, q, memo) ==
  /\ from \notin {Ram, Proxy} /\ Turn(from)
  /\ memo # BypassMemo
  /\ contract = Proxy
  /\ Transfer(contract, from, q)
  /\ Priced(market.base, BytesForCreation)
  /\ q >= Price(market)
  /\ \E key \in ParseMemo(memo) :
       Proceed(Reaction(from) \o Creation(from, memo.account, memo.key, key, q, Price(market)))
  /\ UNCHANGED <<accounts, ram, market, room, deals, kept>>

(* The inline actions. *)

Upcoming(do) == ~ Idle /\ Head(todo).do = do

\* external: a key that the chain reads out of an action's data.  It wants a
\* domain in a key of type WA, which parsememo does not.
Deserializable(key) == key.type = "WA" => key.rpid # <<>>

\* external: eosio::newaccount.  Some names need more authority than the
\* contract's: shorter ones, and those with a dot.
CanCreate(name, key) == name \in Creatable \ accounts /\ Deserializable(key)

NewAccount ==
  /\ Upcoming("newaccount")
  /\ CanCreate(Head(todo).account, Head(todo).key)
  /\ accounts' = accounts \cup {Head(todo).account}
  /\ Proceed(<<>>)
  /\ UNCHANGED <<coins, ram, market, room, deals, kept>>

\* external: core.vaulta turns the payment into the system's token, gives it
\* back to the contract (which ontransfer ignores), and buys; eosio takes its
\* fee, and wants to sell something.
CanBuy(q) == q > Fee(q) /\ BytesCostWithFee(market, q) > 0 /\ coins[Create] >= q

BuyRam ==
  /\ Upcoming("buyram")
  /\ LET name == Head(todo).account
         q    == Head(todo).quantity
         bytes == BytesCostWithFee(market, q)
     IN  /\ CanBuy(q)
         /\ coins' = [coins EXCEPT ![Create] = @ - q]
         /\ ram' = [ram EXCEPT ![name] = [bytes |-> @.bytes + bytes, from |-> market]]
         /\ market' = [base |-> market.base - bytes, quote |-> market.quote + q - Fee(q)]
  /\ Proceed(<<>>)
  /\ UNCHANGED <<accounts, room, deals, kept>>

\* The excess goes to the new account, whose row is new and the sender's to pay.
SendRefund ==
  /\ Upcoming("transfer")
  /\ coins' = [coins EXCEPT ![Create] = @ - Head(todo).quantity,
                            ![Head(todo).account] = @ + Head(todo).quantity]
  /\ room' = room - 1
  /\ Proceed(<<>>)
  /\ UNCHANGED <<accounts, ram, market, deals, kept>>

\* logcreation; and where it ends the transaction, the chain's check that every
\* account has the RAM it uses.
CanEnd ==
  Rest = <<>> => room >= 0 /\ \A n \in Names \cap accounts : ram[n].bytes >= Usage

LogCreation ==
  /\ Upcoming("logcreation")
  /\ CanEnd
  /\ deals' = [deals EXCEPT ![Head(todo).account] = Head(todo).deal]
  /\ Proceed(<<>>)
  /\ UNCHANGED <<coins, accounts, ram, market, room, kept>>

(* The others. *)

\* external: trades in RAM, in a transaction of their own or by a payer's contract.
\* A contract that leaves the market where it is has had its turn as well.
MoveMarket(new) ==
  /\ Idle \/ Upcoming("react")
  /\ market' = new
  /\ Proceed(<<>>)
  /\ UNCHANGED <<coins, accounts, ram, room, deals, kept>>

\* external: somebody else creates the account, with RAM enough.
OtherCreates(name) ==
  /\ Idle \/ Upcoming("react")
  /\ name \notin accounts
  /\ accounts' = accounts \cup {name}
  /\ ram' = [ram EXCEPT ![name] = [NoRam EXCEPT !.bytes = Usage]]
  /\ Proceed(<<>>)
  /\ UNCHANGED <<coins, market, room, deals, kept>>

\* external: somebody buys RAM for the contract, or an account spends its refund
\* and pays for the row from then on.
Provide(rows) ==
  /\ Idle \/ Upcoming("react")
  /\ rows > room
  /\ room' = rows
  /\ Proceed(<<>>)
  /\ UNCHANGED <<coins, accounts, ram, market, deals, kept>>

\* external: the action at the head fails, and nothing has happened.
Fails ==
  LET next == Head(todo) IN
  \/ next.do = "newaccount" /\ ~ CanCreate(next.account, next.key)
  \/ next.do = "buyram" /\ ~ CanBuy(next.quantity)
  \/ next.do = "logcreation" /\ ~ CanEnd

Abort ==
  /\ ~ Idle /\ Fails
  /\ coins' = saved.coins /\ accounts' = saved.accounts /\ ram' = saved.ram
  /\ market' = saved.market /\ room' = saved.room /\ deals' = saved.deals
  /\ kept' = saved.kept
  /\ todo' = <<>> /\ saved' = <<>>

----
Run == NewAccount \/ BuyRam \/ SendRefund \/ LogCreation \/ Abort

World ==
  \/ \E new \in Markets \cup {market} : MoveMarket(new)
  \/ \E name \in Names : OtherCreates(name)
  \/ \E rows \in Rooms : Provide(rows)

Payments ==
  \E contract \in Contracts, from \in Payers \cup {Ram, Proxy}, q \in Quantities, memo \in Memos :
    Retain(contract, from, q, memo) \/ Pay(contract, from, q, memo)

Next == Payments \/ Run \/ World

Spec == Init /\ [][Next]_vars

\* A transaction is carried out to its end: the chain does not leave one half-way,
\* and the payer's contract, when it is called, returns.
FairSpec == Spec /\ WF_vars(Run) /\ WF_vars(Upcoming("react") /\ Next)

----
(* Properties. *)

Reserves == [base : Nat, quote : Nat]

\* A deal has a key that its text was read as.
ReadKeys == {reading.key : reading \in Readings}

Deals ==
  {d \in [from : Payers, text : SentTexts, key : ReadKeys,
          paid : Nat, ram : Nat, excess : Nat, quoted : Reserves] :
     [text |-> d.text, key |-> d.key] \in Readings}

TypeOK ==
  /\ coins \in [Accounts \cup Names -> Nat]
  /\ Accounts \subseteq accounts /\ accounts \subseteq Accounts \cup Names
  /\ ram \in [Names -> [bytes : Nat, from : Reserves]]
  /\ market \in Reserves
  /\ room \in Int /\ (Idle => room \in Nat)
  /\ kept \in Nat
  /\ Idle = (saved = <<>>)
  /\ deals \in [Names -> {NoDeal} \cup Deals]
  /\ \A n \in Names : deals[n] # NoDeal => n \in accounts

\* The units that the actions of a queue spend, each by the place of its action,
\* counted from the end, and what the transaction is still going to spend.
UnitsOf(queue) ==
  UNION { {k} \X (1 .. queue[Len(queue) + 1 - k].quantity) : k \in 1 .. Len(queue) }

Committed == Cardinality(UnitsOf(todo))

\* At every point of every transaction, also one whose payer's contract pays
\* again from within it, the contract holds what it was sent for nothing and
\* what it is about to spend: no payment subsidises another and nothing of one
\* stays behind.
NothingKept == coins[Create] = kept + Committed

\* The account got its RAM for the price quoted and its owner the rest of the
\* payment.  Bought from the reserves the price was quoted for, it is never more
\* than the bytes asked for, and with one unit more, and what the fee's
\* rounding took twice, it would have been all of them.
DealsAreFair ==
  \A n \in Names : deals[n] # NoDeal =>
    LET deal == deals[n]
        lost == Fee(deal.ram) - Fee(RamCost(deal.quoted, BytesForCreation))
        spent == deal.ram - Fee(deal.ram)
    IN  /\ deal.paid = deal.ram + deal.excess
        /\ coins[n] = deal.excess
        /\ ram[n].from = deal.quoted =>
             /\ ram[n].bytes <= BytesForCreation
             /\ BancorOutput(deal.quoted.quote, deal.quoted.base, spent + lost + 1)
                  >= BytesForCreation
        /\ Idle => ram[n].bytes >= Usage

\* A text is read as the key that it encodes, and as none if it encodes none:
\* mistyped, of another length or type, or with a checksum of another format.
ReadingsCorrect ==
  Readings = {r \in [text : Texts, key : KnownKeys] : Encodes(r.text, r.key)}

\* So an account created has the key that its payer's memo encodes, and one that
\* nobody would have is not created.
KeysAsEncoded ==
  /\ ReadingsCorrect
  /\ \A n \in Names : deals[n] # NoDeal => Encodes(deals[n].text, deals[n].key)

\* Reserves at which the price buys the RAM that the account uses.
Covers(reserves) ==
  BytesCostWithFee(reserves, RamCostWithFee(reserves, BytesForCreation)) >= Usage

\* A payment is about to be carried out, for a name and a key that newaccount
\* takes, with room for the row of its refund, and nobody has traded or paid in
\* the same transaction.  ontransfer looks at none of these: a payment that it
\* accepts without them comes to nothing, as Abort has it.
Accepted(n) ==
  /\ Upcoming("newaccount") /\ Head(todo).account = n /\ Len(todo) <= 4
  /\ CanCreate(n, Head(todo).key)
  /\ todo[3].do = "transfer" => room > 0
  /\ market = saved.market /\ Covers(market)

\* Such a payment ends with the account: the price that was quoted is enough,
\* and the refund leaves the contract able to pay it.
AcceptedPaymentsComplete == \A n \in Names : Accepted(n) ~> deals[n] # NoDeal
================================================================================
