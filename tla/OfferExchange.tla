---------------------------- MODULE OfferExchange ----------------------------
(***************************************************************************)
(* What a session promises to Kit and to the browser, without peer         *)
(* connections, goroutines, ids or ackids: the conversation each of them   *)
(* sees.  A frame of Kit is acked or shown to the browser; an offer of     *)
(* either end is answered at most once and offered on at most once, the    *)
(* browser being the last to hear in both directions; candidates belong to *)
(* an offer somebody made; nobody is told anything once the sockets are    *)
(* closed.                                                                 *)
(***************************************************************************)
EXTENDS Naturals, Sequences

VARIABLES
  open,           \* the sockets take frames
  heard,          \* frames Kit has sent
  kitOffers,      \* offers Kit has made
  browserOffers,  \* offers the browser has made
  toKit,          \* what Kit was told, oldest first
  toBrowser

exchangeVars == <<open, heard, kitOffers, browserOffers, toKit, toBrowser>>

\* "of" is the offer it is about, or the frame of Kit an ack or a copy is of.
Item(type, of) == [type |-> type, of |-> of]
On(wire, item) == \E i \in 1..Len(wire) : wire[i] = item
Told(wire, item) == IF open THEN Append(wire, item) ELSE wire

ExchangeInit ==
  /\ open = TRUE
  /\ heard = 0 /\ kitOffers = 0 /\ browserOffers = 0
  /\ toKit = << >> /\ toBrowser = << >>

\* A frame of Kit, in the order they were sent.
Ack(offers) ==
  /\ heard' = heard + 1
  /\ kitOffers' = offers
  /\ toKit' = Told(toKit, Item("ack", heard + 1))
  /\ UNCHANGED <<open, browserOffers, toBrowser>>

Show ==
  /\ heard' = heard + 1
  /\ toBrowser' = Told(toBrowser, Item("passed", heard + 1))
  /\ UNCHANGED <<open, kitOffers, browserOffers, toKit>>

BrowserOffers ==
  /\ browserOffers' = browserOffers + 1
  /\ UNCHANGED <<open, heard, kitOffers, toKit, toBrowser>>

TellKit(item) ==
  /\ open
  /\ toKit' = Append(toKit, item)
  /\ UNCHANGED <<open, heard, kitOffers, browserOffers, toBrowser>>

TellBrowser(item) ==
  /\ open
  /\ toBrowser' = Append(toBrowser, item)
  /\ UNCHANGED <<open, heard, kitOffers, browserOffers, toKit>>

AnswerKit(k) == ~On(toKit, Item("answer", k)) /\ TellKit(Item("answer", k))
OfferBrowser(k) ==
  /\ On(toKit, Item("answer", k)) /\ ~On(toBrowser, Item("offer", k))
  /\ TellBrowser(Item("offer", k))

OfferKit(b) == ~On(toKit, Item("offer", b)) /\ TellKit(Item("offer", b))
AnswerBrowser(b) ==
  /\ On(toKit, Item("offer", b)) /\ ~On(toBrowser, Item("answer", b))
  /\ TellBrowser(Item("answer", b))

Candidate ==
  /\ kitOffers + browserOffers > 0
  /\ TellKit(Item("candidate", 0)) \/ TellBrowser(Item("candidate", 0))

Relay == TellKit(Item("passed", 0))

Close ==
  /\ open' = FALSE
  /\ UNCHANGED <<heard, kitOffers, browserOffers, toKit, toBrowser>>

ExchangeNext ==
  \/ Ack(kitOffers) \/ Ack(kitOffers + 1) \/ Show \/ BrowserOffers
  \/ \E k \in 1..kitOffers : AnswerKit(k) \/ OfferBrowser(k)
  \/ \E b \in 1..browserOffers : OfferKit(b) \/ AnswerBrowser(b)
  \/ Candidate \/ Relay \/ Close

ExchangeSpec == ExchangeInit /\ [][ExchangeNext]_exchangeVars
=============================================================================
