------------------------------ MODULE LspServer ------------------------------
(***************************************************************************)
(* The language server (LSPServer::run and the handlers that keep the      *)
(* documents) and the editor at the other end of the pipe.                 *)
(*                                                                         *)
(* A text is the number of the edit that made it, 0 is no text.  What the  *)
(* editor shows of a document is the text that the diagnostics published   *)
(* last describe, 0 once they are cleared.  An edit carries the whole text *)
(* (the server announces full synchronization).                            *)
(***************************************************************************)
EXTENDS Integers, Sequences

CONSTANTS
  Uris,      \* the documents
  NoUri,     \* not one of them
  MaxEdits,  \* bound: how many texts the editor sends
  MaxInbox   \* bound: how many messages wait in the pipe

VARIABLES
  inbox,       \* stdin: the messages not yet read
  text, tree,  \* docs_: for each document its text and the text its tree is of
  pending,     \* pending_uri_ if pending_parse_, else NoUri
  snapshot,    \* pending_text_, which nothing reads
  due,         \* 150 ms have passed since last_change_time_
  initialized,
  pc,          \* "loop" at the head of the loop, "reading", "ended"
  shown,       \* for each document what the editor shows
  editor,      \* for each document the text in the editor, 0 when closed
  edits,       \* the texts so far
  recent       \* history: the document whose change was handled last

vars == <<inbox, text, tree, pending, snapshot, due, initialized, pc, shown, editor, edits, recent>>
docs == <<text, tree, shown>>
client == <<editor, edits>>
timer == <<pending, snapshot, due>>

-----------------------------------------------------------------------------
(* The editor.                                                             *)

Send(m) == Len(inbox) < MaxInbox /\ inbox' = Append(inbox, m)
Message(method, u, t) == [method |-> method, uri |-> u, text |-> t]

SendText(method, u) ==
  /\ edits < MaxEdits
  /\ edits' = edits + 1
  /\ editor' = [editor EXCEPT ![u] = edits']
  /\ Send(Message(method, u, edits'))

Open(u) == editor[u] = 0 /\ SendText("didOpen", u)
Change(u) == editor[u] # 0 /\ SendText("didChange", u)

Close(u) ==
  /\ editor[u] # 0
  /\ editor' = [editor EXCEPT ![u] = 0]
  /\ Send(Message("didClose", u, 0))
  /\ UNCHANGED edits

\* A request, the end of the session, or the end of the pipe.
Ask == \E method \in {"hover", "shutdown", "eof"} : Send(Message(method, NoUri, 0)) /\ UNCHANGED client

Edit ==
  /\ Ask \/ \E u \in Uris : Open(u) \/ Change(u) \/ Close(u)
  /\ UNCHANGED <<docs, timer, initialized, pc, recent>>

-----------------------------------------------------------------------------
(* The server.                                                             *)

\* parseDocument and publishDiagnostics: from the text the document has now.
ParseAndPublish(u, t) ==
  /\ tree' = [tree EXCEPT ![u] = t]
  /\ shown' = [shown EXCEPT ![u] = t]

\* MUTANT of Flush: the change is forgotten whether it was due or not.
FlushForgets ==
  /\ pc = "loop"
  /\ pc' = "reading"
  /\ pending' = NoUri
  /\ IF pending # NoUri /\ due /\ text[pending] # 0
     THEN ParseAndPublish(pending, text[pending])
     ELSE UNCHANGED <<tree, shown>>
  /\ UNCHANGED <<inbox, text, snapshot, due, initialized, client, recent>>

\* The head of the loop.
Flush ==
  /\ pc = "loop"
  /\ pc' = "reading"
  /\ IF pending # NoUri /\ due
     THEN /\ pending' = NoUri
          /\ IF text[pending] # 0
             THEN ParseAndPublish(pending, text[pending])
             ELSE UNCHANGED <<tree, shown>>
     ELSE UNCHANGED <<pending, tree, shown>>
  /\ UNCHANGED <<inbox, text, snapshot, due, initialized, client, recent>>

DidOpen(u, t) ==
  /\ text' = [text EXCEPT ![u] = t]
  /\ ParseAndPublish(u, t)
  /\ UNCHANGED <<timer, recent>>

\* MUTANT of DidChange: an earlier change that waits is not replaced.
DidChangeKeepsFirst(u, t) ==
  /\ text' = [text EXCEPT ![u] = t]
  /\ pending' = IF pending = NoUri THEN u ELSE pending
  /\ snapshot' = t /\ due' = FALSE /\ recent' = u
  /\ UNCHANGED <<tree, shown>>

\* One document at a time waits to be parsed: a change of another replaces it.
DidChange(u, t) ==
  /\ text' = [text EXCEPT ![u] = t]
  /\ pending' = u /\ snapshot' = t /\ due' = FALSE /\ recent' = u
  /\ UNCHANGED <<tree, shown>>

\* A change of the document that waits is not cancelled.
DidClose(u) ==
  /\ text' = [text EXCEPT ![u] = 0] /\ tree' = [tree EXCEPT ![u] = 0]
  /\ shown' = [shown EXCEPT ![u] = 0]
  /\ UNCHANGED <<timer, recent>>

\* readMessage and handleMessage.  The end of the pipe, and a message that is
\* not well formed, end the loop; until it is initialized the server answers
\* with an error or not at all.
Handle ==
  LET m == Head(inbox)
  IN /\ pc = "reading" /\ inbox # <<>>
     /\ inbox' = Tail(inbox)
     /\ initialized' = (initialized \/ m.method = "initialize")
     /\ pc' = IF m.method = "eof" \/ (initialized /\ m.method = "shutdown")
              THEN "ended" ELSE "loop"
     /\ CASE initialized /\ m.method = "didOpen" -> DidOpen(m.uri, m.text)
          [] initialized /\ m.method = "didChange" -> DidChange(m.uri, m.text)
          [] initialized /\ m.method = "didClose" -> DidClose(m.uri)
          [] OTHER -> UNCHANGED <<docs, timer, recent>>
     /\ UNCHANGED client

\* 150 ms have passed.
Tick == pending # NoUri /\ ~due /\ due' = TRUE
          /\ UNCHANGED <<inbox, docs, pending, snapshot, initialized, pc, client, recent>>

Init ==
  /\ inbox = <<Message("initialize", NoUri, 0)>>
  /\ text = [u \in Uris |-> 0] /\ tree = text /\ shown = text /\ editor = text
  /\ pending = NoUri /\ snapshot = 0 /\ due = FALSE
  /\ initialized = FALSE /\ pc = "loop"
  /\ edits = 0 /\ recent = NoUri

Serve == Flush \/ Handle
Next == Edit \/ Serve \/ Tick

\* The server runs when it can, and time passes; the editor need not do anything.
Fairness == WF_vars(Serve) /\ WF_vars(Tick)
Spec == Init /\ [][Next]_vars /\ Fairness

-----------------------------------------------------------------------------
(* Properties.                                                             *)

Heard == inbox = <<>>

\* An answer is given from an old tree only while the parse of that document is
\* coming, or after a change of another document: the document changed last is
\* never left behind its text for good.
RecentIsParsedOrPending ==
  recent # NoUri /\ tree[recent] # text[recent] => pending = recent

\* The diagnostics of a closed document stay cleared, whatever waited when it
\* was closed.
ClosedStaysClear ==
  \A u \in Uris : pc # "ended" /\ editor[u] = 0 /\ Heard => shown[u] = 0

\* The diagnostics that are published for a document are never about an older
\* text than those before, even when it is closed and opened again.
NeverGoesBack ==
  [][\A u \in Uris : shown'[u] # 0 => shown'[u] >= shown[u]]_vars

\* Text t was handled last and is not shown.  A text is sent for one document only.
Behind(t) ==
  recent # NoUri /\ text[recent] = t /\ shown[recent] < t /\ pc # "ended"

\* As long as messages arrive again and again, the document edited last comes
\* to show the diagnostics of its text, unless a newer one comes first.
KeepsUp == []<>~Heard => \A t \in 1 .. MaxEdits : Behind(t) ~> ~Behind(t)

\* run "150 ms में debounced parses भी flush करता है": it parses what waits, whether
\* or not another message comes.
FlushesInTime == \A u \in Uris : pending = u /\ text[u] # 0 ~> pending # u \/ pc = "ended"
=============================================================================
