------------------------------- MODULE ChatParser ------------------------------
(***************************************************************************)
(* The chat order parser. It reads the menu, asks a language model what a  *)
(* customer's message orders, and builds a draft with totals; the          *)
(* dashboard later posts the draft as an FB_CHATBOT order. The menu is     *)
(* read once, and the catalog may change while the model answers.          *)
(* Customer data, notes and the wording of the prompt are left out.        *)
(***************************************************************************)
EXTENDS CatalogMappings, Integers, SequencesExt

CONSTANTS
  Price,        \* a product's basePriceCents
  Answers,      \* answers of the language model that a run considers
  Absent,       \* a field that is not there
  NotANumber    \* JavaScript's NaN, and text that is no number

(* What the model is asked to return; nothing checks that it did. Ids may  *)
(* be invented, quantities are in tenths.                                  *)
LlmItem == [productId: Products \cup {NoId}, quantity: Int \cup {Absent, NotANumber}]
LlmResult == [items: Seq(LlmItem), unresolved: Nat]

ASSUME ParserAssumption ==
  /\ Absent # NotANumber /\ {Absent, NotANumber} \cap Int = {}
  /\ Price \in [Products -> Nat] /\ Answers \subseteq LlmResult

VARIABLE chat   \* the parse under way: its menu and, at the end, its draft

Times(a, b) == IF NotANumber \in {a, b} THEN NotANumber ELSE a * b

(* Math.max(1, Math.round(quantity ?? 1)).                                 *)
DraftQuantity(q) ==
  IF q = Absent THEN 1
  ELSE IF q = NotANumber THEN NotANumber
  ELSE IF q < 15 THEN 1 ELSE (q + 5) \div 10

(* Defect: the line total multiplies what the model said, unrounded.       *)
ParsedItemUnrounded(i) ==
  [productId |-> i.productId, quantity |-> DraftQuantity(i.quantity),
   unitPriceCents |-> Price[i.productId],
   lineTotalCents |-> IF i.quantity \in Int
                      THEN (Price[i.productId] * i.quantity) \div 10
                      ELSE Times(Price[i.productId], DraftQuantity(i.quantity))]

ParsedItem(i) ==
  [productId |-> i.productId, quantity |-> DraftQuantity(i.quantity),
   unitPriceCents |-> Price[i.productId],
   lineTotalCents |-> Times(Price[i.productId], DraftQuantity(i.quantity))]

(* reduce over the line totals: one that is no number makes the sum none.  *)
LineTotalsSum(items) ==
  IF \E n \in DOMAIN items : items[n].lineTotalCents = NotANumber THEN NotANumber
  ELSE FoldSeq(LAMBDA i, sum : sum + i.lineTotalCents, 0, items)

(* Items that are not on the menu that was read become unresolved.         *)
ParsedDraft(menu, llm) ==
  LET known == SelectSeq(llm.items, LAMBDA i : i.productId \in menu)
      items == [n \in DOMAIN known |-> ParsedItem(known[n])]
  IN  [items |-> items, subtotalCents |-> LineTotalsSum(items),
       grandTotalCents |-> LineTotalsSum(items),
       unresolved |-> llm.unresolved + Len(llm.items) - Len(known)]

NoDraft == [items |-> <<>>, subtotalCents |-> 0, grandTotalCents |-> 0, unresolved |-> 0]

ChatInit == chat = [pc |-> "idle", menu |-> {}, draft |-> NoDraft]

(* products.find: what is available, of every store. Without an API key    *)
(* the request ends before this.                                           *)
ReadMenu ==
  /\ chat.pc = "idle"
  /\ chat' = [chat EXCEPT !.pc = "asked",
                          !.menu = {p \in Products : db[p] # NoRow /\ db[p].isAvailable}]

(* The model answers, or with what is no JSON, which counts as no items;   *)
(* or the call fails and the request with it.                              *)
ModelAnswers ==
  /\ chat.pc = "asked"
  /\ \/ \E llm \in Answers \cup {[items |-> <<>>, unresolved |-> 0]} :
          chat' = [chat EXCEPT !.pc = "drafted", !.draft = ParsedDraft(chat.menu, llm)]
     \/ chat' = [chat EXCEPT !.pc = "failed"]

ChatNext == ReadMenu \/ ModelAnswers
=============================================================================
