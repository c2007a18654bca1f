---------------------------- MODULE LspDocuments ----------------------------
(***************************************************************************)
(* The documents of one language-server session, as both ends of the       *)
(* connection see them: LspClient's tables open, diagnostics and           *)
(* awaitingDiagnostics (packages/lsp/src/client.ts), and the buffer the    *)
(* server keeps of a document between didOpen and didClose.                *)
(*                                                                         *)
(* Notifications on one connection are ordered before the requests sent    *)
(* after them, so a notification is applied to the server's buffer in the  *)
(* step that sends it.                                                     *)
(***************************************************************************)
EXTENDS Naturals

CONSTANT None   \* no text, no report, no place

\* What the server holds of a document.
NoBuffer == [open |-> FALSE, version |-> 0, text |-> None]

Closed == [open |-> FALSE, refs |-> 0, version |-> 0,
           awaiting |-> FALSE, cached |-> None,
           buffer |-> NoBuffer, confused |-> FALSE]

(* The server's side.                                                      *)

\* A second didOpen of an open document is a protocol error.
DidOpen(doc, text) ==
  [doc EXCEPT !.buffer   = [open |-> TRUE, version |-> 1, text |-> text],
              !.confused = @ \/ doc.buffer.open]

\* A change that does not raise the version is ignored.
DidChange(doc, version, text) ==
  IF doc.buffer.open /\ version > doc.buffer.version
  THEN [doc EXCEPT !.buffer = [@ EXCEPT !.version = version, !.text = text]]
  ELSE doc

DidClose(doc) == [doc EXCEPT !.buffer = NoBuffer]

(* The client's side.                                                      *)

FreshlyOpen(doc, refs) ==
  [doc EXCEPT !.open = TRUE, !.refs = refs, !.version = 1, !.awaiting = TRUE]

EnsureOpen(docs, u, text) ==
  IF docs[u].open
  THEN [docs EXCEPT ![u].refs = @ + 1]
  ELSE [docs EXCEPT ![u] = DidOpen(FreshlyOpen(@, 1), text)]

ApplyEdited(docs, u, text) ==
  LET next == docs[u].version + 1
  IN  IF docs[u].open
      THEN [docs EXCEPT ![u] = DidChange([docs[u] EXCEPT !.version = next], next, text)]
      ELSE docs

\* The entry, its diagnostics and the flag go; the server closes its buffer.
Evict(doc) ==
  DidClose([doc EXCEPT !.open = FALSE, !.refs = 0, !.version = 0,
                       !.awaiting = FALSE, !.cached = None])

DidFileRename(docs, old, new, text) ==
  IF docs[old].open
  THEN [docs EXCEPT ![old] = Evict(@),
                    ![new] = DidOpen(FreshlyOpen(@, docs[old].refs), text)]
  ELSE docs

DidFileDelete(docs, u) ==
  IF docs[u].open THEN [docs EXCEPT ![u] = Evict(@)] ELSE docs

\* publishDiagnostics: cache the latest, clear the flag.
Publish(docs, u, report) ==
  [docs EXCEPT ![u].cached = report, ![u].awaiting = FALSE]
=============================================================================
