------------------------------ MODULE StoredObject -----------------------------
(***************************************************************************)
(* What storing an object promises, whatever connections, chunks, files    *)
(* and threads it takes: it is created once, it is finalized once and with *)
(* the content that was uploaded, an upload has returned only when it is   *)
(* finalized, and nothing but that content is ever fetched.                *)
(***************************************************************************)
CONSTANTS Content,   \* what the clients upload
          Clients    \* the clients that upload it

VARIABLES exists,    \* the object has been created
          sealed,    \* the content it was finalized with, none before
          returned,  \* the clients that were told that the upload is complete
          fetched    \* the contents that were fetched

ovars == <<exists, sealed, returned, fetched>>

Nothing == {}

OInit == exists = FALSE /\ sealed = Nothing /\ returned = {} /\ fetched = {}

Create == /\ ~exists
          /\ exists' = TRUE
          /\ UNCHANGED <<sealed, returned, fetched>>

Finalize == /\ exists /\ sealed = Nothing
            /\ sealed' = {Content}
            /\ UNCHANGED <<exists, returned, fetched>>

\* An empty object is never finalized.
Return(c) == /\ exists /\ (sealed # Nothing \/ Content = <<>>)
             /\ returned' = returned \cup {c}
             /\ UNCHANGED <<exists, sealed, fetched>>

Leave(c) == /\ returned' = returned \ {c}
            /\ UNCHANGED <<exists, sealed, fetched>>

\* Also before it is finalized.
Fetch == /\ exists
         /\ fetched' = fetched \cup {Content}
         /\ UNCHANGED <<exists, sealed, returned>>

ONext == Create \/ Finalize \/ (\E c \in Clients : Return(c) \/ Leave(c)) \/ Fetch

OSpec == OInit /\ [][ONext]_ovars
==============================================================================
