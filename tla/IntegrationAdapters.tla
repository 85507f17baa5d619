------------------------- MODULE IntegrationAdapters -------------------------
(***************************************************************************)
(* What one call of an adapter's pull() (src/lib/integrations/adapters)    *)
(* makes of the reply of the external system, and what the normalization   *)
(* layer makes of its records.  Of a reply only its kind, the number of    *)
(* its items and whether it says that there are more is kept; the          *)
(* categories and messages of errors.ts are left out, as no code reads     *)
(* them back.                                                              *)
(***************************************************************************)
EXTENDS Naturals

\* Those that reduce a page to one record, and those with a record for every item.
Counting == {"JIRA", "ASANA", "MONDAY"}

Listing == {"NETSUITE", "CERTINIA", "KANTATA", "OPENAIR", "SALESFORCE"}

Providers == Counting \cup Listing

(***************************************************************************)
(* "refused" is a status other than 2xx, "silent" no response in time or   *)
(* none at all, "garbage" a body that is not JSON, "errors" a 200 with a   *)
(* list of GraphQL errors, "drift" JSON without the members the adapter    *)
(* reads, "odd" a page some item of which has a value of another type.     *)
(***************************************************************************)
Reply == [kind : {"refused", "silent", "garbage", "errors", "drift", "odd", "page"},
          items : 0 .. 1, more : BOOLEAN]

Failed == [is |-> "failed"]

Thrown == [is |-> "thrown"]

Page(records, bad, more) == [is |-> "page", records |-> records, bad |-> bad, next |-> more]

\* getJson, which never throws.
GetJson(reply) == reply.kind \notin {"refused", "silent", "garbage"}

\* One record per page, whose counts cannot be of another type; the loop over the items
\* throws when they are not there.
CountingPull(reply) ==
  CASE ~GetJson(reply) -> Failed
    [] reply.kind \in {"errors", "drift"} -> Thrown
    [] OTHER -> Page(1, FALSE, reply.more)

\* The GraphQL one looks for its errors first.  A query by cursor answers with
\* next_items_page, and the code reads boards all the same.
MondayPull(first, reply) ==
  IF ~GetJson(reply) \/ reply.kind = "errors" THEN Failed
  ELSE IF reply.kind = "drift" \/ ~first THEN Thrown
  ELSE Page(1, FALSE, reply.more)

\* One record per row, with the values of the row.
ListingPull(reply) ==
  CASE ~GetJson(reply) -> Failed
    [] reply.kind \in {"errors", "drift"} -> Thrown
    [] OTHER -> Page(reply.items, reply.kind = "odd" /\ reply.items > 0, reply.more)

\* adapterFor and pull: without a credential nothing is asked.
Pull(provider, secret, first, reply) ==
  IF ~secret THEN Failed
  ELSE CASE provider = "MONDAY" -> MondayPull(first, reply)
         [] provider \in Counting \ {"MONDAY"} -> CountingPull(reply)
         [] OTHER -> ListingPull(reply)

\* normalizeRecords: one bad record is a page of another shape.
Normalize(page) == ~page.bad
=============================================================================
