------------------------------ MODULE Clients -----------------------------
(* Programs with clients of one reactor: requests of the HTTP/1.0 client one  *)
(* after the other, an HttpReader, and a Gio generator.  They share the       *)
(* descriptor numbers and the reactor's registrations.                        *)
EXTENDS Descriptors, Sequences, SequencesExt

CONSTANTS Requester, Reader, Mine,  \* the clients: Mine are the sockets of Gio
          Programs,                 \* sets of them
          Options, MaxHandshakes, MaxRequests, Responses,
          Incoming, MaxBlocks, MaxTimers

VARIABLES program,
          option, pc, unread, status, size, count, sent, result, requestTimer,
          requests, timeouts,
          response, state, coming, buffer, readTimer, told, failed,
          at, by, blocks, context, arriving, message, got, units, made, fired

Q == INSTANCE HttpRequest10 WITH Me <- Requester, timer <- requestTimer
H == INSTANCE HttpReader WITH Me <- Reader, unread <- coming, timer <- readTimer
G == INSTANCE Gio WITH pc <- at, coming <- arriving

ASSUME ClientsAssumption ==
    /\ Q!HttpRequest10Assumption /\ H!HttpReaderAssumption /\ G!GioAssumption
    /\ Requester # Reader /\ {Requester, Reader} \cap Mine = {}
    /\ Programs \subseteq SUBSET Client

requester == <<option, pc, unread, status, size, count, sent, result,
               requestTimer, requests, timeouts>>
reader == <<response, state, coming, buffer, readTimer, told, failed>>
gio == <<at, by, blocks, context, arriving, message, got, units, made, fired>>
clientsVars == <<program, requester, reader, gio, num, fds>>

\* A program without a Requester may have had one that left a registration.
\* What a client reads that is not in the program is of no interest.
ClientsInit ==
    /\ program \in Programs
    /\ DescriptorsInit \/ (Requester \notin program /\ DescriptorsUsed)
    /\ Q!Init /\ H!Init /\ G!Init
    /\ Reader \notin program => response = CHOOSE r \in Responses : TRUE
    /\ Mine \cap program = {} => arriving = CHOOSE a \in Incoming : TRUE

RequesterSteps == Requester \in program /\ Q!Next /\ UNCHANGED <<reader, gio>>
ReaderSteps == Reader \in program /\ H!Next /\ UNCHANGED <<requester, gio>>
GioSteps == Mine \subseteq program /\ G!Next /\ UNCHANGED <<requester, reader>>
ClientsNext == (RequesterSteps \/ ReaderSteps \/ GioSteps) /\ UNCHANGED program

ClientsSpec == ClientsInit /\ [][ClientsNext]_clientsVars /\ Q!Fairness /\ H!Fairness

\* Types; and whatever the other client leaves in the table or takes out of it,
\* a client that waits for its socket has its registration, and a reader its
\* timer.
Watched == /\ Q!TypeOK /\ H!TypeOK /\ G!TypeOK
           /\ Q!Watched /\ H!Watched /\ G!Watched

\* A client that is over leaves no socket and no registration, but for what a
\* timeout of a request at one of two yields leaves in the table: once each.
CleanedUp == (Requester \in program => Q!CleanedUp) /\ H!CleanedUp

\* A response is what the server sent to its end; a handler hears the header,
\* its data and an end, once each; a generator is sent what is read, in order,
\* and again only after a timeout.
Outcomes == Q!Whole /\ H!HandlerHears /\ G!InOrder

\* Requests and readers get to an end.  (A Gio promises none: it may wait for
\* ever outside timers.)
ClientsEnd == Q!RequestEnds /\ H!ReaderEnds
=============================================================================
