----------------------------- MODULE InvoicePdf -----------------------------
(***************************************************************************)
(* The PDFs of invoices: each is rendered when its invoice is issued and   *)
(* again whenever a request finds no stored file. Files are written to a   *)
(* name of their own and renamed; several renders of one invoice and       *)
(* readers of its file run at the same time; the storage may fail, the API *)
(* may crash, and the database may be reset while the files stay.          *)
(* InvoiceLayout says what a render draws: the same document whenever the  *)
(* invoice is the same, so that here a document is known by its invoice.   *)
(***************************************************************************)
EXTENDS InvoiceLayout

CONSTANTS
    Invoices,       \* ids of the invoices that may be issued
    NumberOf,       \* id -> invoice number; a reset makes numbers start again
    Requests,       \* GET /invoices/:id/pdf
    NoInvoice, NoFile, Half,
    MaxFaults,      \* how often a storage operation fails
    MaxCrashes, MaxResets

ASSUME PdfAssumption ==
    /\ DOMAIN NumberOf = Invoices
    /\ Requests \cap Invoices = {}
    /\ NoInvoice \notin Invoices
    /\ NoFile \notin Invoices /\ Half \notin Invoices /\ NoFile # Half
    /\ {MaxFaults, MaxCrashes, MaxResets} \subseteq Nat

\* Whoever renders: the generation an event starts for an invoice, and requests.
Tasks == Invoices \cup Requests

VARIABLES
    rows,           \* the invoices in the database
    issued,         \* all that were ever issued
    at,             \* where each task is
    invoice,        \* the invoice each task is about
    served,         \* the document a request got
    stored,         \* the files in the storage directory, by name
    temp,           \* the temporary file of each task
    litter,         \* a temporary file could not be removed
    faults, crashes, resets

vars == <<rows, issued, at, invoice, served, stored, temp, litter, faults, crashes, resets>>

\* MUTANT: files are named by invoice number alone.
NamedByNumber(i) == <<NumberOf[i]>>

\* A document is known by the invoice it is of; a file is named by number and id.
PathFor(i) == <<NumberOf[i], i>>

Documents == Invoices \cup {Half, NoFile}

Names == {PathFor(i) : i \in Invoices}

Storing == {"write", "writing", "rename"}
Ended == {"served", "not found", "failed", "lost"}

TypeOK ==
    /\ rows \subseteq issued /\ issued \subseteq Invoices
    /\ at \in [Tasks -> {"idle", "find", "read", "render"} \cup Storing \cup Ended]
    /\ invoice \in [Tasks -> Invoices \cup {NoInvoice}]
    /\ served \in [Requests -> Documents]
    /\ stored \in [Names -> Invoices \cup {NoFile}]
    /\ temp \in [Tasks -> Documents]
    /\ litter \in BOOLEAN
    /\ faults \in 0..MaxFaults /\ crashes \in 0..MaxCrashes /\ resets \in 0..MaxResets

Init ==
    /\ rows = {} /\ issued = {}
    /\ at = [t \in Tasks |-> "idle"]
    /\ invoice = [t \in Tasks |-> NoInvoice]
    /\ served = [r \in Requests |-> NoFile]
    /\ stored = [n \in Names |-> NoFile]
    /\ temp = [t \in Tasks |-> NoFile]
    /\ litter = FALSE
    /\ faults = 0 /\ crashes = 0 /\ resets = 0

bounds == <<faults, crashes, resets>>

Step(t, from, to) ==
    /\ at[t] = from
    /\ at' = [at EXCEPT ![t] = to]

(***************************************************************************)
(* Beginning: an issued invoice, a request; the row is looked up.          *)
(***************************************************************************)
\* invoice.created, after the commit.
OnInvoiceCreated(i) ==
    /\ i \notin issued
    /\ \A j \in rows : NumberOf[j] # NumberOf[i]
    /\ Step(i, "idle", "find")
    /\ rows' = rows \cup {i}
    /\ issued' = issued \cup {i}
    /\ invoice' = [invoice EXCEPT ![i] = i]
    /\ UNCHANGED <<served, stored, temp, litter, bounds>>

GetPdf(r) ==
    \E i \in issued :
        /\ Step(r, "idle", "find")
        /\ invoice' = [invoice EXCEPT ![r] = i]
        /\ UNCHANGED <<rows, issued, served, stored, temp, litter, bounds>>

\* A generation renders at once; a request looks for a stored file first.
FindInvoice(t) ==
    /\ Step(t, "find", IF invoice[t] \notin rows THEN "not found"
                       ELSE IF t \in Requests THEN "read" ELSE "render")
    /\ UNCHANGED <<rows, issued, invoice, served, stored, temp, litter, bounds>>

\* A missing file and a failing storage are the same: render.
ReadStored(t) ==
    /\ at[t] = "read"
    /\ LET file == stored[PathFor(invoice[t])]
       IN  \/ /\ file # NoFile
              /\ Step(t, "read", "served")
              /\ served' = [served EXCEPT ![t] = file]
              /\ UNCHANGED faults
           \/ /\ file = NoFile
              /\ Step(t, "read", "render")
              /\ UNCHANGED <<served, faults>>
           \/ /\ faults < MaxFaults
              /\ faults' = faults + 1
              /\ Step(t, "read", "render")
              /\ UNCHANGED served
    /\ UNCHANGED <<rows, issued, invoice, stored, temp, litter, crashes, resets>>

(***************************************************************************)
(* renderAndStore. `mkdir` is part of the first write.                     *)
(***************************************************************************)
Render(t) ==
    /\ Step(t, "render", "write")
    /\ UNCHANGED <<rows, issued, invoice, served, stored, temp, litter, bounds>>

\* MUTANT: the file is written in its place.
BeginWriteInPlace(t) ==
    /\ Step(t, "write", "writing")
    /\ stored' = [stored EXCEPT ![PathFor(invoice[t])] = Half]
    /\ UNCHANGED <<rows, issued, invoice, served, temp, litter, bounds>>

BeginWrite(t) ==
    /\ Step(t, "write", "writing")
    /\ temp' = [temp EXCEPT ![t] = Half]
    /\ UNCHANGED <<rows, issued, invoice, served, stored, litter, bounds>>

EndWrite(t) ==
    /\ Step(t, "writing", "rename")
    /\ temp' = [temp EXCEPT ![t] = invoice[t]]
    /\ UNCHANGED <<rows, issued, invoice, served, stored, litter, bounds>>

\* The rendered document is the answer, stored or not.
Delivered(t) ==
    /\ at' = [at EXCEPT ![t] = "served"]
    /\ served' = IF t \in Requests THEN [served EXCEPT ![t] = invoice[t]] ELSE served

Rename(t) ==
    /\ at[t] = "rename"
    /\ stored' = [stored EXCEPT ![PathFor(invoice[t])] = temp[t]]
    /\ temp' = [temp EXCEPT ![t] = NoFile]
    /\ Delivered(t)
    /\ UNCHANGED <<rows, issued, invoice, litter, bounds>>

\* MUTANT: what could not be stored fails the request.
FailRequest(t) ==
    /\ at[t] \in Storing
    /\ faults < MaxFaults
    /\ faults' = faults + 1
    /\ temp' = [temp EXCEPT ![t] = NoFile]
    /\ at' = [at EXCEPT ![t] = "failed"]
    /\ UNCHANGED <<rows, issued, invoice, served, stored, litter, crashes, resets>>

\* MUTANT: the temporary file of a failed write stays.
FailStoringUnclean(t) ==
    /\ at[t] \in Storing
    /\ faults < MaxFaults
    /\ faults' = faults + 1
    /\ Delivered(t)
    /\ UNCHANGED <<rows, issued, invoice, stored, temp, litter, crashes, resets>>

\* A storage operation fails: the temporary file is removed, if that succeeds.
FailStoring(t) ==
    /\ at[t] \in Storing
    /\ faults < MaxFaults
    /\ faults' = faults + 1
    /\ \/ temp' = [temp EXCEPT ![t] = NoFile] /\ UNCHANGED litter
       \/ UNCHANGED temp /\ litter' = TRUE
    /\ Delivered(t)
    /\ UNCHANGED <<rows, issued, invoice, stored, crashes, resets>>

(***************************************************************************)
(* Around the API.                                                         *)
(***************************************************************************)
Crash ==
    /\ crashes < MaxCrashes
    /\ crashes' = crashes + 1
    /\ at' = [t \in Tasks |-> IF at[t] \in {"idle"} \cup Ended THEN at[t] ELSE "lost"]
    /\ UNCHANGED <<rows, issued, invoice, served, stored, temp, litter, faults, resets>>

\* The database begins anew, numbers included; the storage directory stays.
ResetDatabase ==
    /\ resets < MaxResets
    /\ resets' = resets + 1
    /\ rows' = {}
    /\ UNCHANGED <<issued, at, invoice, served, stored, temp, litter, faults, crashes>>

RenderAndStore(t) ==
    Render(t) \/ BeginWrite(t) \/ EndWrite(t) \/ Rename(t) \/ FailStoring(t)

Next ==
    \/ \E i \in Invoices : OnInvoiceCreated(i)
    \/ \E r \in Requests : GetPdf(r) \/ ReadStored(r)
    \/ \E t \in Tasks : FindInvoice(t) \/ RenderAndStore(t)
    \/ Crash
    \/ ResetDatabase

Spec == Init /\ [][Next]_vars

\* The event loop goes on with every task whose query or file operation is back.
Fairness ==
    /\ \A t \in Tasks : WF_vars(FindInvoice(t) \/ RenderAndStore(t))
    /\ \A r \in Requests : WF_vars(ReadStored(r))

FairSpec == Spec /\ Fairness

-----------------------------------------------------------------------------
(***************************************************************************)
(* Properties.                                                             *)
(***************************************************************************)
\* A request that is served gets the whole document of the invoice it asked for:
\* never half a file that another task is writing, never the file of another
\* invoice that had the same number before a reset of the database (pathFor).
ServedIsOwnAndWhole ==
    \A r \in Requests : at[r] = "served" => served[r] = invoice[r]

\* "Designed to be read by people AND by an LLM" (invoice-pdf.renderer.ts): whatever the
\* heights of its texts and the order its lines are read in, the document a request gets
\* has everything once, in reading order, nothing over anything else or off its page,
\* each line under a heading and each page numbered.
ServedIsReadable ==
    (\E r \in Requests : served[r] \in Invoices) => Unreadable = {}

\* A file under its final name stays the document it is, whatever crashes or
\* fails while the same invoice is rendered again (renderAndStore).
StoredStays ==
    [][\A n \in Names : stored[n] # NoFile => stored'[n] = stored[n]]_vars

\* Temporary files are gone when their task is over, even when storing failed: only
\* a crash, or a removal that fails too, leaves one behind.
NoLitter ==
    crashes = 0 /\ ~litter =>
        \A t \in Tasks : temp[t] # NoFile => at[t] \in Storing

\* "A storage problem can never stop an invoice PDF from being served"
\* (readStored): a request whose invoice exists is served, unless the process dies.
FoundIsServed ==
    \A r \in Requests : at[r] = "read" ~> at[r] \in {"served", "lost"}
=============================================================================
