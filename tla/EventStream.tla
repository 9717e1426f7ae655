----------------------------- MODULE EventStream -----------------------------
(***************************************************************************)
(* GET /v1/searches/{id}/events beside the threads of CampaignController:  *)
(* api/events.py stream_events polls the log, sends what its cursor has    *)
(* not covered, looks at the row, looks at the log once more, and ends     *)
(* when the campaign is closed and nothing remains.  The client may drop   *)
(* in the middle of a batch and come back with the Last-Event-ID it got.   *)
(* Every event of this system is public, so an event's number is its       *)
(* position in the log.                                                    *)
(***************************************************************************)
EXTENDS CampaignController

CONSTANT MaxDrops   \* bound: how often the connection breaks

VARIABLES
    stream,   \* where the server's generator is, or "offline", or "ended"
    cursor,   \* the generator's cursor
    closed,   \* campaign_is_closed, as the generator read it
    got,      \* the ids the client has received, in order
    drops

streamVars == <<stream, cursor, closed, got, drops>>

Ids(from, to) == [i \in 1..(to - from) |-> from + i]

\* Mutated form of NumberedAfter: seq >= after.
NumberedFrom(c) == IF c = 0 THEN Ids(0, Len(log)) ELSE Ids(c - 1, Len(log))

\* numbered_public_events: the events whose number is greater than the cursor.
NumberedAfter(c) == Ids(c, Len(log))

StreamInit ==
    /\ stream = "poll" /\ cursor = 0 /\ closed = FALSE
    /\ got = <<>> /\ drops = 0

\* The batch is sent whole, and the cursor is at its end.
SendBatch ==
    /\ stream = "poll"
    /\ got' = got \o NumberedAfter(cursor)
    /\ cursor' = Len(log)
    /\ stream' = "sent"
    /\ UNCHANGED <<closed, drops>>

\* The connection breaks with only a part of the batch at the client.
Drop ==
    /\ stream = "poll" /\ drops < MaxDrops
    /\ \E n \in 0..Len(NumberedAfter(cursor)) :
          got' = got \o SubSeq(NumberedAfter(cursor), 1, n)
    /\ stream' = "offline"
    /\ drops' = drops + 1
    /\ UNCHANGED <<cursor, closed>>

\* Mutated form of ResumePoint: the server goes on from where it stood.
ServerCursor == cursor

\* The client sends back the last id it received.
ResumePoint == IF got = <<>> THEN 0 ELSE got[Len(got)]

Reconnect ==
    /\ stream = "offline"
    /\ cursor' = ResumePoint
    /\ stream' = "poll"
    /\ UNCHANGED <<closed, got, drops>>

\* campaign_is_closed reads the row after the batch has gone.
JudgeClosed ==
    /\ stream = "sent"
    /\ closed' = (row.state \in Terminal)
    /\ stream' = "judged"
    /\ UNCHANGED <<cursor, got, drops>>

\* Mutated form of NothingRemains: the second look at the log is dropped.
NotLookedAgain == TRUE

\* Mutated form of NothingRemains: the look starts at the Last-Event-ID of the request.
LooksFromStart == Len(log) = 0

NothingRemains == NumberedAfter(cursor) = <<>>

\* The generator returns, or sleeps and polls again.
EndOrSleep ==
    /\ stream = "judged"
    /\ stream' = IF closed /\ NothingRemains THEN "ended" ELSE "poll"
    /\ UNCHANGED <<cursor, closed, got, drops>>

StreamStep == SendBatch \/ JudgeClosed \/ EndOrSleep \/ Reconnect

StreamedInit == Init /\ StreamInit

StreamedNext ==
    \/ Next /\ UNCHANGED streamVars
    \/ (StreamStep \/ Drop) /\ UNCHANGED vars

StreamedVars == <<vars, streamVars>>

\* The event loop keeps polling, and a client that lost its connection comes back.
StreamedSpec ==
    /\ StreamedInit /\ [][StreamedNext]_StreamedVars
    /\ \A w \in Workers : WF_vars(WorkerStep(w) \/ ThreadStep(w))
    /\ \A c \in Cancellers : WF_vars(CancelStep(c) \/ ThreadStep(c))
    /\ WF_streamVars(StreamStep)

-------------------------------------------------------------------------------
\* docs/architecture/API.md:97-98: over any number of reconnects the client receives
\* the log's events in order, without a gap and without a duplicate.
NoGapNoDuplicate == got = Ids(0, Len(got)) /\ Len(got) <= Len(log)

\* The stream of a campaign that ended does not stay open for ever.
StreamEnds == row.state \in Terminal ~> stream = "ended"

\* The server never ends the stream on a client that lacks an event of the log: the
\* order of the three reads (batch, row, log again) leaves no window for an event that
\* was in the log when the campaign was judged closed.
EndsWithNothingUnsent ==
    [][stream' = "ended" /\ stream # "ended" => Len(got) = Len(log)]_StreamedVars

\* docs/architecture/API.md:100: the stream closes on a terminal campaign after the
\* remaining events are sent, search.complete among them.
EndedStreamIsComplete ==
    (stream = "ended" /\ crashes = 0) => \E i \in Completions : i <= Len(got)
===============================================================================
