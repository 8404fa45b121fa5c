-------------------------------- MODULE MCCreate --------------------------------
(* A small instance of Create for TLC. *)
EXTENDS Create

CONSTANTS alice, bot, first, second, dotted

\* A checksum of two bytes, that tells apart bytes, their order and the formats.
SumSuffixes == <<"", "K1", "R1", "WA">>

SmallChecksum(bytes, suffix) ==
  LET code == CHOOSE i \in 1 .. 4 : SumSuffixes[i] = suffix
      sum  == FoldLeft(LAMBDA s, b : (5 * s + b + 1) % 251, code, bytes)
  IN  <<(sum + 40 * code) % 256, sum>>

SmallKeys ==
  [type : {"K1", "R1"}, data : {<<0>>, <<200>>}]
    \cup [type : {"WA"}, data : {<<7>>}, presence : {1}, rpid : {<<>>, <<64, 0>>}]

Genuine == UNION { {Encoding(key, prefix) : prefix \in Formats(key)} : key \in SmallKeys }

\* One digit mistyped, missing or in the wrong place, or a character that is none.
Mistyped(s) ==
  UNION { { [s EXCEPT ![i] = (@ + 1) % 58],
            [s EXCEPT ![i] = NotADigit],
            [s EXCEPT ![i] = Space],
            RemoveAt(s, i),
            InsertAt(s, i, Zero) } : i \in DOMAIN s }

\* The key of another format, of an unknown one, and texts that are too short.
Misread(text) ==
  { [text EXCEPT !.prefix = "PUB", !.type = type] : type \in {"K1", "R1", "WA", "", "XX"} }
    \cup { [text EXCEPT !.prefix = "EOS", !.type = ""] }
    \cup { [text EXCEPT !.chars = SubSeq(@, 1, n)] : n \in 0 .. 2 }

Spaced(text) == [text EXCEPT !.chars = <<Space>> \o @ \o <<Space, Space>>]

\* Two that are right, one of them between spaces.
Right == { Encoding([type |-> "K1", data |-> <<0>>], "EOS"),
           Spaced(CHOOSE text \in Genuine : text.type = "WA" /\ Len(text.chars) > 8) }

Wrong ==
  UNION { Misread(text) \cup { [text EXCEPT !.chars = s] : s \in Mistyped(text.chars) }
          : text \in Genuine }

SmallTexts == Genuine \cup Right \cup Wrong

\* What memos have: the one between spaces, one that the chain refuses for its
\* empty domain, and a mistyped one.
SmallSent ==
  { CHOOSE text \in Right : text.type = "WA",
    Encoding([type |-> "WA", data |-> <<7>>, presence |-> 1, rpid |-> <<>>], "PUB"),
    CHOOSE text \in Wrong \ Genuine : text.prefix = "EOS" /\ Len(text.chars) = 4 }

SmallMarkets ==
  { [base |-> 40, quote |-> 20],       \* the market as it is
    [base |-> 40, quote |-> 30],       \* RAM has become dear
    [base |-> 4,  quote |-> 20] }      \* none of it left but what is asked for

SmallCoins ==
  [a \in Accounts \cup Names |->
     CASE a = alice -> 4 [] a = bot -> 6 [] a = Proxy -> 3 [] OTHER -> 0]
================================================================================
