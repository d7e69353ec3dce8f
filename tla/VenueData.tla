------------------------------ MODULE VenueData ------------------------------
(***************************************************************************)
(* The data clients (integrations/market_data, news, alpaca/options over     *)
(* integrations/_http.py) and the live inputs built from them                *)
(* (agents/ingest.py).                                                       *)
(*                                                                         *)
(* A resource is the sequence of pages the venue would serve:                *)
(*   [reply, items, more] with reply "object", "status", "transport",        *)
(*   "not json" or "not an object"; `more` is the next_page_token.           *)
(* An item that a parser rejects has wellFormed = FALSE.                     *)
(***************************************************************************)
EXTENDS Integers, Sequences, SequencesExt, FiniteSets

CONSTANTS Symbols,        \* the symbols a position can have, in sorted order: an
                          \* option position has an OCC symbol of its own
          MaxBarPages,    \* market_data.client._MAX_PAGES
          MaxNewsPages    \* news.client._MAX_PAGES

ASSUME SymbolsAssumption == Symbols \in Seq(STRING)
ASSUME MaxPagesAssumption == {MaxBarPages, MaxNewsPages} \subseteq Nat \ {0}

PageReplies == {"object", "status", "transport", "not json", "not an object"}

\* A resource of such items has a first page, and a token on every page but the last.
Resources(Items) ==
  {pages \in Seq([reply : PageReplies, items : Seq(Items), more : BOOLEAN]) :
     Len(pages) > 0 /\ \A i \in DOMAIN pages : pages[i].more <=> i # Len(pages)}

RawArticles == [symbols : SUBSET STRING, wellFormed : BOOLEAN]
RawContracts ==
  [occ : [dte : Int, strike : Nat, wellFormed : BOOLEAN], bid : Int, ask : Int, wellFormed : BOOLEAN]

LiveChainPages == 1       \* max_pages of ingest's get_chain
MaxUnderlyings == 2       \* _MAX_OPTION_UNDERLYINGS

Failed == [ok |-> FALSE, items |-> <<>>]

\* request_json and expect_object: everything but a JSON object is the client's error.
IsObject(page) == page.reply = "object"

\* The pages a client asks for: up to the first without a token, at most max.
Asked(pages, max) ==
  LET last == {i \in DOMAIN pages : ~pages[i].more} \cup {max, Len(pages)} IN
  SubSeq(pages, 1, CHOOSE i \in last : \A j \in last : i <= j)

\* One page that fails fails the call.
Walk(pages, max) ==
  LET asked == Asked(pages, max) IN
  IF \A i \in DOMAIN asked : IsObject(asked[i])
  THEN [ok |-> TRUE, items |-> FlattenSeq([i \in DOMAIN asked |-> asked[i].items])]
  ELSE Failed

\* So does one item that does not parse.
Parsed(walk, Parses(_), Parse(_)) ==
  IF walk.ok /\ \A k \in DOMAIN walk.items : Parses(walk.items[k])
  THEN [ok |-> TRUE, items |-> [k \in DOMAIN walk.items |-> Parse(walk.items[k])]]
  ELSE Failed

\* A walk that stops at the cap returns what it has: bars and news are cut silently.
IsBar(raw) == raw.wellFormed
ParseBar(raw) == [symbol |-> raw.symbol, close |-> raw.close]

GetBars(pages) == Parsed(Walk(pages, MaxBarPages), IsBar, ParseBar)

GetBarsMulti(pages) ==
  LET bars == Parsed(Walk(pages, MaxBarPages), IsBar, ParseBar) IN
  [ok |-> bars.ok,
   of |-> [s \in ToSet(Symbols) |-> SelectSeq(bars.items, LAMBDA bar : bar.symbol = s)]]

\* An article without a headline or a time is refused; one without symbols is not.
IsArticle(raw) == raw.wellFormed
NormalizeArticle(raw) == [symbols |-> raw.symbols]

GetNews(pages) == Parsed(Walk(pages, MaxNewsPages), IsArticle, NormalizeArticle)

\* The contract is in the OCC id, the quote in the snapshot.
IsOccSymbol(occ) == occ.wellFormed
IsSnapshot(raw) == IsOccSymbol(raw.occ) /\ raw.wellFormed
ParseOptionSnapshot(raw) ==
  [dte |-> raw.occ.dte, strike |-> raw.occ.strike, bid |-> raw.bid, ask |-> raw.ask]

GetChainTruncated(pages, max) == Parsed(Walk(pages, max), IsSnapshot, ParseOptionSnapshot)

\* A chain with a page left over is an error, never a truncated chain.
GetChain(pages, max) ==
  IF Last(Asked(pages, max)).more THEN Failed
  ELSE Parsed(Walk(pages, max), IsSnapshot, ParseOptionSnapshot)

-----------------------------------------------------------------------------
(* The account (integrations/alpaca/client.py, read by ingest's portfolio).   *)

AlpacaReplies == {"json", "null", "other json", "status", "transport", "not json"}

\* Only a 2xx with a JSON body is an answer; null is one.
AnswersJson(reply) == reply \in {"json", "null", "other json"}

\* Any JSON is an account; positions must be an array, and null is an empty one.
GetAccount(reply) == AnswersJson(reply)
GetPositions(reply, positions) ==
  [ok |-> reply \in {"json", "null"},
   items |-> IF reply = "json" THEN positions ELSE {}]

\* Without both the key and the secret no client is built.
ResolveAlpacaConfig(credentials) == credentials = {"key", "secret"}

\* The venue could not be reached for one or the other.
PortfolioUnreachable(credentials, account, reply) ==
  /\ ResolveAlpacaConfig(credentials)
  /\ \/ account = "transport"
     \/ GetAccount(account) /\ reply = "transport"

\* A row without a symbol is an exception of its own; every number has a default.
IsPosition(row) == row # "no symbol"

\* Everything up to the last reply is IngestError, what the rows or the account object
\* do afterwards is not.
PortfolioState(credentials, account, reply, rows) ==
  LET read == GetPositions(reply, rows) IN
  IF ~(ResolveAlpacaConfig(credentials) /\ GetAccount(account) /\ read.ok)
  THEN [raises |-> "IngestError", positions |-> {}]
  ELSE IF account # "json" \/ ~\A row \in read.items : IsPosition(row)
  THEN [raises |-> "other", positions |-> {}]
  ELSE [raises |-> "none", positions |-> read.items]

-----------------------------------------------------------------------------

Held(positions) ==
  FlattenSeq([i \in DOMAIN Symbols |-> IF Symbols[i] \in positions THEN <<Symbols[i]>> ELSE <<>>])

Trend(first, last) == IF last > first THEN "UP" ELSE IF last < first THEN "DOWN" ELSE "FLAT"

\* The market slice: an index without bars has no trend, a symbol without bars no entry, and
\* a last close that is not positive ends the loop over the symbols; nothing ever sets vix.
MarketSlice(index, bars, held) ==
  LET walk == GetBars(index)
      multi == GetBarsMulti(bars)
      hasBars(i) == multi.of[held[i]] # <<>>
      refused(i) == hasBars(i) /\ Last(multi.of[held[i]]).close <= 0 IN
  [trend |-> IF walk.items = <<>> THEN "none"
             ELSE Trend(Head(walk.items).close, Last(walk.items).close),
   vix |-> -1,
   priced |-> IF held = <<>> \/ ~multi.ok THEN {}
              ELSE {held[i] : i \in {k \in DOMAIN held : hasBars(k) /\ ~\E j \in 1..k : refused(j)}}]

NewsSlice(pages, held) == IF held = <<>> THEN <<>> ELSE GetNews(pages).items

\* A quote side that is missing or not positive is None (0); no row carries an open
\* interest (-1 is None).
QuoteRow(contract) ==
  LET side(price) == IF price > 0 THEN price ELSE 0 IN
  [oi |-> -1, dte |-> contract.dte, bid |-> side(contract.bid), ask |-> side(contract.ask)]

\* OptionQuoteRow refuses a strike of 0.
IsQuoteRow(contract) == contract.strike > 0

\* The first held symbols in sorted order, option positions among them.
Underlyings(held) ==
  SubSeq(held, 1, IF Len(held) < MaxUnderlyings THEN Len(held) ELSE MaxUnderlyings)

\* Their put chains; a chain that failed or is empty is left out, and a row that is refused
\* drops them all.
OptionChains(venue, held) ==
  LET underlyings == Underlyings(held)
      contracts(i) == GetChain(venue[underlyings[i]], LiveChainPages).items
      quotes(i) == [q \in DOMAIN contracts(i) |-> QuoteRow(contracts(i)[q])] IN
  IF \E i \in DOMAIN underlyings : \E q \in DOMAIN contracts(i) : ~IsQuoteRow(contracts(i)[q])
  THEN <<>>
  ELSE FlattenSeq([i \in DOMAIN underlyings |->
         IF contracts(i) = <<>> THEN <<>> ELSE <<[underlying |-> underlyings[i], quotes |-> quotes(i)]>>])
=============================================================================
