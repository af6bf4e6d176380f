-------------------------- MODULE KnowledgeServer --------------------------
(***************************************************************************)
(* The knowledge server (server/deepgent_server) and `deepgent rag ingest`: *)
(* a datasheet is split into chunks that are sent one by one, by commands   *)
(* that can die on the way and be run again, for one chip or for another;   *)
(* the chunk table replaces what it already has, while its full-text index  *)
(* only ever grows; claims of the matrix are appended, by bench runs and by *)
(* the seeding from versions.toml, and the newest that applies is served.   *)
(* Every method holds its store's lock and is one step.                     *)
(***************************************************************************)
EXTENDS Naturals, Sequences, FiniteSets, SequencesExt

CONSTANTS
  Docs,     \* the lines of each datasheet: [head |-> name] or [text |-> word]
  Chips,    \* what --chip can be
  Clients,  \* ingesting commands
  Stacks,   \* what claims are made about: functions of components to versions
  MaxText,  \* lines a chunk holds (a number of characters in the code)
  MaxSends, \* bound: chunks received (rows indexed)
  MaxClaims \* bound: claims recorded

ASSUME ServerAssumption ==
  /\ MaxText \in Nat \ {0} /\ {MaxSends, MaxClaims} \subseteq Nat
  /\ \A doc \in DOMAIN Docs : Docs[doc] \in Seq(ToSet(Docs[doc]))

VARIABLES
  chunks,   \* table chunks
  index,    \* its full-text index: row numbers and what stood there
  client,   \* what each command is sending
  last,     \* history: the chip each chunk was last sent for
  whole,    \* history: documents a command has sent to the end
  claims    \* table matrix_claims, oldest first

server == <<chunks, index, client, last, whole, claims>>

-----------------------------------------------------------------------------
\* _split_sections: a heading ends the section before it; a section without text is
\* dropped, and a long one is cut into pieces.
IsHead(line) == "head" \in DOMAIN line

Pieces(section, body) ==
  [i \in 1..((Len(body) + MaxText - 1) \div MaxText) |->
     [section |-> section,
      text |-> SubSeq(body, (i - 1) * MaxText + 1,
                      IF i * MaxText < Len(body) THEN i * MaxText ELSE Len(body))]]

Flush(s) ==
  [done |-> s.done \o Pieces(s.section, s.body), section |-> s.section, body |-> <<>>]

TakeLine(s, line) == IF IsHead(line) THEN [Flush(s) EXCEPT !.section = line.head]
                     ELSE [s EXCEPT !.body = Append(@, line.text)]
NoLines == [done |-> <<>>, section |-> "body", body |-> <<>>]
Split(lines) == Flush(FoldLeft(TakeLine, NoLines, lines)).done

\* A chunk's id is a hash of document, section and text: not of the chip.
ChunkId(doc, piece) == [doc |-> doc, section |-> piece.section, text |-> piece.text]

\* INSERT OR REPLACE: the new row is numbered past every row there is, the old one
\* leaves the table but, for want of a delete trigger, not the index.
NewRow == LET rows == {0} \cup { c.row : c \in chunks }
          IN  1 + CHOOSE n \in rows : \A m \in rows : m <= n

AddChunk(id, chip) ==
  /\ chunks' = { c \in chunks : c.id # id } \cup {[row |-> NewRow, id |-> id, chip |-> chip]}
  /\ index' = index \cup {[row |-> NewRow, id |-> id]}
  /\ last' = [d \in DOMAIN last \cup {id} |-> IF d = id THEN chip ELSE last[d]]

HasWord(id, word) == \E i \in DOMAIN id.text : id.text[i] = word

\* search: matching index entries joined with the table by row, one result for each.
Search(word, chip) ==
  { h \in index \X chunks :
      h[1].row = h[2].row /\ HasWord(h[1].id, word) /\ h[2].chip = chip }

-----------------------------------------------------------------------------
ClaimApplies(stack, asked) ==
  \A k \in DOMAIN stack : k \in DOMAIN asked /\ asked[k] = stack[k]

\* query_claim: the newest claim that applies, 0 for none.
QueryClaim_Oldest(asked) ==
  LET hits == { i \in DOMAIN claims : ClaimApplies(claims[i].stack, asked) }
  IN  IF hits = {} THEN 0 ELSE CHOOSE i \in hits : \A j \in hits : i <= j
QueryClaim(asked) ==
  LET hits == { i \in DOMAIN claims : ClaimApplies(claims[i].stack, asked) }
  IN  IF hits = {} THEN 0 ELSE CHOOSE i \in hits : \A j \in hits : j <= i

Claim(stack, status, evidence) == [stack |-> stack, status |-> status, evidence |-> evidence]

-----------------------------------------------------------------------------
NotSending == [at |-> 0]

ServerInit ==
  /\ chunks = {} /\ index = {} /\ last = <<>> /\ whole = {} /\ claims = <<>>
  /\ client = [c \in Clients |-> NotSending]

StartIngest(c, doc, chip) ==
  /\ client[c] = NotSending
  /\ client' = [client EXCEPT ![c] = [at |-> 1, doc |-> doc, chip |-> chip, pieces |-> Split(Docs[doc])]]
  /\ UNCHANGED <<chunks, index, last, whole, claims>>

\* One awaited /rag/ingest call of the loop.
Send(c) ==
  /\ client[c] # NotSending /\ Cardinality(index) < MaxSends
  /\ LET s == client[c] IN
       /\ s.at <= Len(s.pieces)
       /\ AddChunk(ChunkId(s.doc, s.pieces[s.at]), s.chip)
  /\ client' = [client EXCEPT ![c].at = @ + 1]
  /\ UNCHANGED <<whole, claims>>

FinishIngest(c) ==
  /\ client[c] # NotSending /\ client[c].at > Len(client[c].pieces)
  /\ whole' = whole \cup {<<client[c].doc, client[c].chip>>}
  /\ client' = [client EXCEPT ![c] = NotSending]
  /\ UNCHANGED <<chunks, index, last, claims>>

\* The command dies, or a call fails: what was sent stays.
Abandon(c) ==
  /\ client[c] # NotSending /\ client' = [client EXCEPT ![c] = NotSending]
  /\ UNCHANGED <<chunks, index, last, whole, claims>>

\* add_claim from a verification run.
Verify(stack, status) ==
  /\ Len(claims) < MaxClaims
  /\ claims' = Append(claims, Claim(stack, status, "run"))
  /\ UNCHANGED <<chunks, index, client, last, whole>>

\* seed_from_versions pairs each component of a shipped line with its anchor version.
Seed(line) ==
  /\ Len(claims) < MaxClaims
  /\ LET paired == DOMAIN line \ {"l4t"}
         pair(k) == [x \in {"l4t", k} |-> line[x]]
     IN  claims' = claims \o SetToSeq({ Claim(pair(k), "verified_pass", "manifest") : k \in paired })
  /\ UNCHANGED <<chunks, index, client, last, whole>>

ServerNext ==
  \/ \E c \in Clients :
       \/ \E doc \in DOMAIN Docs, chip \in Chips : StartIngest(c, doc, chip)
       \/ Send(c) \/ FinishIngest(c) \/ Abandon(c)
  \/ \E stack \in Stacks : Seed(stack) \/ \E status \in {"verified_pass", "verified_fail"} : Verify(stack, status)

-----------------------------------------------------------------------------
\* Splitting loses no text and moves none out of its order.
ReadOn(text, line) == IF IsHead(line) THEN text ELSE Append(text, line.text)
Rejoin(text, piece) == text \o piece.text
SplitKeepsText ==
  \A doc \in DOMAIN Docs :
    LET pieces == Split(Docs[doc])
    IN  /\ FoldLeft(Rejoin, <<>>, pieces) = FoldLeft(ReadOn, <<>>, Docs[doc])
        /\ \A i \in DOMAIN pieces : Len(pieces[i].text) \in 1..MaxText

\* However often documents are sent again, in part or in whole, a search returns each
\* chunk that has the word once, for the chip it was last sent for; the index entries of
\* replaced rows never come back.
SearchIsExact ==
  \A chip \in Chips, word \in { e.id.text[1] : e \in index } :
    LET hits == Search(word, chip) IN
      /\ \A h, k \in hits : h[2].id = k[2].id => h = k
      /\ { h[2].id : h \in hits } = { id \in DOMAIN last : last[id] = chip /\ HasWord(id, word) }

\* A document some command has sent to the end is all there, whoever died sending it
\* before or since; under which chip, a later command for another chip decides.
DocumentsAreWhole ==
  \A d \in whole :
    \A i \in DOMAIN Split(Docs[d[1]]) :
      \E c \in chunks : c.id = ChunkId(d[1], Split(Docs[d[1]])[i])

\* A recorded failure is answered with a pass only on the strength of a later record.
\* That record may be no test at all: seeding again from the manifest is enough.
FailureIsHeeded ==
  \A asked \in Stacks, i \in DOMAIN claims :
    LET answer == QueryClaim(asked) IN
      claims[i].status = "verified_fail" /\ ClaimApplies(claims[i].stack, asked)
        => answer >= i /\ ClaimApplies(claims[answer].stack, asked)
=============================================================================
