---------------------------- MODULE Notifications ----------------------------
(***************************************************************************)
(* The notifications of store.cc over the event loop of events.cc.  The    *)
(* store tells its subscribers of every object that is sealed, deleted or  *)
(* evicted; what a subscriber's socket does not take at once waits in      *)
(* pending_notifications_ for the callback that runs when there is room.   *)
(*                                                                         *)
(* The loop's thread pushes to one subscriber after another and sends one  *)
(* notification after another; meanwhile the subscribers read, or close    *)
(* their sockets.  A subscription's descriptor number is not used again.   *)
(* Of the object table only the set of sealed objects matters.             *)
(***************************************************************************)
EXTENDS Integers, Sequences, FiniteSets, SequencesExt

CONSTANTS
  ObjectIDs,
  Clients,
  Fds,          \* the descriptors of the subscriptions there can be
  NoFd,
  Room,         \* how many notifications a socket holds
  MaxChanges,   \* bound on the changes of the object table
  Mortal,       \* the clients that may close their sockets
  Faulty        \* the descriptors whose sends may fail or be interrupted

ASSUME ObjectIDsAssumption == IsFiniteSet(ObjectIDs)
ASSUME RoomAssumption == Room \in Nat \ {0}
ASSUME MaxChangesAssumption == MaxChanges \in Nat
ASSUME MortalAssumption == Mortal \subseteq Clients
ASSUME FaultyAssumption == Faulty \subseteq Fds
ASSUME NoFdAssumption == NoFd \notin Fds

VARIABLES
  sealed,                  \* the sealed objects in the table
  changes,                 \* how often it has changed
  notification_fd,         \* Client::notification_fd of each client
  fresh,                   \* the descriptors not used yet
  pending_notifications_,  \* the queue of each descriptor in the map
  mapped,                  \* the keys of that map
  file_callbacks_,         \* the descriptors with a write callback
  fired,                   \* those the last poll found writable
  todo,                    \* what the handler in progress has to push to each
  sending,                 \* the descriptor SendNotifications is called for
  socket,                  \* the notifications in each socket
  hung_up,                 \* the sockets whose reader has closed them
  known,                   \* what each client has been told is sealed
  crashed,                 \* the callback of an erased queue has run
  dropped                  \* history: what the failed sends to each were about

vars == <<sealed, changes, notification_fd, fresh, pending_notifications_, mapped,
          file_callbacks_, fired, todo, sending, socket, hung_up, known, crashed,
          dropped>>

Init ==
  /\ sealed = {} /\ changes = 0
  /\ notification_fd = [c \in Clients |-> NoFd]
  /\ fresh = Fds
  /\ pending_notifications_ = [fd \in Fds |-> <<>>]
  /\ mapped = {}
  /\ file_callbacks_ = {} /\ fired = {}
  /\ todo = [fd \in Fds |-> <<>>] /\ sending = NoFd
  /\ socket = [fd \in Fds |-> <<>>]
  /\ hung_up = {}
  /\ known = [c \in Clients |-> {}]
  /\ crashed = FALSE
  /\ dropped = [fd \in Fds |-> {}]

(* A notification names the objects that were sealed together, or one that *)
(* was deleted.                                                            *)
SealedInfo(ids) == [deletion |-> FALSE, ids |-> ids]
DeletedInfo(id) == [deletion |-> TRUE, ids |-> {id}]

Idle ==
  /\ ~crashed /\ sending = NoFd
  /\ \A fd \in Fds : todo[fd] = <<>>

table == <<sealed, changes>>
subscribers == <<notification_fd, fresh, mapped>>
readers == <<socket, hung_up, known>>

------------------------------------------------------------------------------
(* Handlers that notify.                                                   *)

(* PushNotification and PushNotifications: to every queue there is, in the *)
(* arbitrary order of the map's keys.                                      *)
PushNotifications(info) ==
  todo' = [fd \in Fds |-> IF fd \in mapped THEN <<info>> ELSE <<>>]

(* SealObjects: one notification for the objects of the request.           *)
SealObjects(ids) ==
  /\ Idle
  /\ changes < MaxChanges
  /\ ids # {} /\ ids \cap sealed = {}
  /\ sealed' = sealed \cup ids
  /\ changes' = changes + 1
  /\ PushNotifications(SealedInfo(ids))
  /\ UNCHANGED <<subscribers, pending_notifications_, file_callbacks_, fired,
                 sending, readers, crashed, dropped>>

(* DeleteObject, or EvictObjects without an external store.                *)
EraseObject(id) ==
  /\ Idle
  /\ changes < MaxChanges
  /\ id \in sealed
  /\ sealed' = sealed \ {id}
  /\ changes' = changes + 1
  /\ PushNotifications(DeletedInfo(id))
  /\ UNCHANGED <<subscribers, pending_notifications_, file_callbacks_, fired,
                 sending, readers, crashed, dropped>>

(* The number recv_fd gives the next descriptor.                           *)
NextFd == CHOOSE fd \in fresh : TRUE

(* Mutant of SubscribeToUpdates: the objects already there are left out.   *)
SubscribeFromNowOn(c) ==
  /\ Idle
  /\ notification_fd[c] = NoFd /\ fresh # {}
  /\ fresh' = fresh \ {NextFd}
  /\ mapped' = mapped \cup {NextFd}
  /\ notification_fd' = [notification_fd EXCEPT ![c] = NextFd]
  /\ UNCHANGED <<table, pending_notifications_, file_callbacks_, fired, todo,
                 sending, readers, crashed, dropped>>

(* SubscribeToUpdates: the new subscriber hears of every sealed object,    *)
(* one notification for each.                                              *)
SubscribeToUpdates(c) ==
  /\ Idle
  /\ notification_fd[c] = NoFd /\ fresh # {}
  /\ fresh' = fresh \ {NextFd}
  /\ mapped' = mapped \cup {NextFd}
  /\ notification_fd' = [notification_fd EXCEPT ![c] = NextFd]
  /\ todo' = [todo EXCEPT ![NextFd] =
       [i \in 1 .. Cardinality(sealed) |-> SealedInfo({SetToSeq(sealed)[i]})]]
  /\ UNCHANGED <<table, pending_notifications_, file_callbacks_, fired, sending,
                 readers, crashed, dropped>>

(* Mutant of DisconnectClient: the callback stays.                         *)
DisconnectKeepsCallback(c) ==
  /\ Idle
  /\ LET fd == notification_fd[c]
     IN  /\ fd # NoFd
         /\ mapped' = mapped \ {fd}
         /\ pending_notifications_' = [pending_notifications_ EXCEPT ![fd] = <<>>]
  /\ notification_fd' = [notification_fd EXCEPT ![c] = NoFd]
  /\ known' = [known EXCEPT ![c] = {}]
  /\ UNCHANGED <<table, fresh, file_callbacks_, fired, todo, sending, socket,
                 hung_up, crashed, dropped>>

(* DisconnectClient, for a subscriber: callback, socket and queue go.  The *)
(* objects its releases evict are EraseObject steps before.                *)
DisconnectClient(c) ==
  /\ Idle
  /\ LET fd == notification_fd[c]
     IN  /\ fd # NoFd
         /\ file_callbacks_' = file_callbacks_ \ {fd}
         /\ mapped' = mapped \ {fd}
         /\ pending_notifications_' = [pending_notifications_ EXCEPT ![fd] = <<>>]
  /\ notification_fd' = [notification_fd EXCEPT ![c] = NoFd]
  /\ known' = [known EXCEPT ![c] = {}]
  /\ UNCHANGED <<table, fresh, fired, todo, sending, socket, hung_up, crashed,
                 dropped>>

(* A push of the handler: the notification joins the queue, if it is still *)
(* there, and SendNotifications is called for it.                          *)
Push(fd) ==
  /\ ~crashed /\ todo[fd] # <<>> /\ sending = NoFd
  /\ IF fd \in mapped
       THEN /\ pending_notifications_' =
                 [pending_notifications_ EXCEPT ![fd] = Append(@, Head(todo[fd]))]
            /\ sending' = fd
       ELSE UNCHANGED <<pending_notifications_, sending>>
  /\ todo' = [todo EXCEPT ![fd] = Tail(@)]
  /\ UNCHANGED <<table, subscribers, file_callbacks_, fired, readers, crashed,
                 dropped>>

------------------------------------------------------------------------------
(* SendNotifications.                                                      *)

Queue == pending_notifications_[sending]
InSend == sending # NoFd
Full == sending \notin hung_up /\ Len(socket[sending]) = Room
Interrupted == sending \in Faulty

(* send takes the first notification.                                      *)
SendOne ==
  /\ InSend /\ Queue # <<>>
  /\ sending \notin hung_up /\ Len(socket[sending]) < Room
  /\ socket' = [socket EXCEPT ![sending] = Append(@, Head(Queue))]
  /\ pending_notifications_' = [pending_notifications_ EXCEPT ![sending] = Tail(@)]
  /\ UNCHANGED <<table, subscribers, file_callbacks_, fired, todo, sending, hung_up,
                 known, crashed, dropped>>

(* Mutant of SendBlocked: nobody will try again.                           *)
SendForgets ==
  /\ InSend /\ Queue # <<>>
  /\ Interrupted \/ Full
  /\ sending' = NoFd
  /\ UNCHANGED <<table, subscribers, pending_notifications_, file_callbacks_, fired,
                 todo, readers, crashed, dropped>>

(* EAGAIN when the socket is full, or EINTR at any time: the rest waits    *)
(* for the write callback.  AddFileEvent changes nothing when the          *)
(* descriptor has one.                                                     *)
SendBlocked ==
  /\ InSend /\ Queue # <<>>
  /\ Interrupted \/ Full
  /\ file_callbacks_' = file_callbacks_ \cup {sending}
  /\ sending' = NoFd
  /\ UNCHANGED <<table, subscribers, pending_notifications_, fired, todo, readers,
                 crashed, dropped>>

(* Mutant of SendFails: the whole queue counts as processed.               *)
SendFailsDropsAll ==
  /\ InSend /\ Queue # <<>> /\ sending \in Faulty
  /\ pending_notifications_' = [pending_notifications_ EXCEPT ![sending] = <<>>]
  /\ dropped' = [dropped EXCEPT ![sending] = @ \cup Head(Queue).ids]
  /\ UNCHANGED <<table, subscribers, file_callbacks_, fired, todo, sending, readers,
                 crashed>>

(* Any other error but EPIPE (ENOBUFS, ENOMEM): a warning, and the         *)
(* notification counts as processed.  The loop over the queue goes on.     *)
SendFails ==
  /\ InSend /\ Queue # <<>> /\ sending \in Faulty
  /\ pending_notifications_' = [pending_notifications_ EXCEPT ![sending] = Tail(@)]
  /\ dropped' = [dropped EXCEPT ![sending] = @ \cup Head(Queue).ids]
  /\ UNCHANGED <<table, subscribers, file_callbacks_, fired, todo, sending, readers,
                 crashed>>

(* Mutant of SendBroken: the loop over the queue goes on.                  *)
SendBrokenGoesOn ==
  /\ InSend /\ Queue # <<>>
  /\ sending \in hung_up
  /\ mapped' = mapped \ {sending}
  /\ pending_notifications_' = [pending_notifications_ EXCEPT ![sending] = Tail(@)]
  /\ UNCHANGED <<table, notification_fd, fresh, file_callbacks_, fired, todo,
                 sending, readers, crashed, dropped>>

(* EPIPE: the descriptor is closed and its queue erased.  The failed       *)
(* notification is still in the queue, so the callback is not removed, and *)
(* the client keeps the number.                                            *)
SendBroken ==
  /\ InSend /\ Queue # <<>>
  /\ sending \in hung_up
  /\ mapped' = mapped \ {sending}
  /\ pending_notifications_' = [pending_notifications_ EXCEPT ![sending] = <<>>]
  /\ sending' = NoFd
  /\ UNCHANGED <<table, notification_fd, fresh, file_callbacks_, fired, todo,
                 readers, crashed, dropped>>

(* Mutant of SendDone: the callback stays when all is sent.                *)
SendDoneKeeps ==
  /\ InSend /\ Queue = <<>>
  /\ sending' = NoFd
  /\ UNCHANGED <<table, subscribers, pending_notifications_, file_callbacks_, fired,
                 todo, readers, crashed, dropped>>

(* All sent: the callback is removed.                                      *)
SendDone ==
  /\ InSend /\ Queue = <<>>
  /\ file_callbacks_' = file_callbacks_ \ {sending}
  /\ sending' = NoFd
  /\ UNCHANGED <<table, subscribers, pending_notifications_, fired, todo, readers,
                 crashed, dropped>>

------------------------------------------------------------------------------
(* The event loop.                                                         *)

Writable(fd) == fd \in hung_up \/ Len(socket[fd]) < Room

(* aeApiPoll: the descriptors that wait and are ready; closed ones are no  *)
(* longer watched.                                                         *)
Poll ==
  /\ Idle /\ fired = {}
  /\ fired' = {fd \in file_callbacks_ \cap mapped : Writable(fd)}
  /\ fired' # {}
  /\ UNCHANGED <<table, subscribers, pending_notifications_, file_callbacks_, todo,
                 sending, readers, crashed, dropped>>

(* aeProcessEvents runs the callback if it is still registered, possibly   *)
(* after other handlers of the same poll.  The callback looks for the      *)
(* queue, and does not check that it found one.                            *)
WriteCallback(fd) ==
  /\ Idle
  /\ fd \in fired
  /\ fired' = fired \ {fd}
  /\ sending' = IF fd \in file_callbacks_ \cap mapped THEN fd ELSE NoFd
  /\ crashed' = (fd \in file_callbacks_ \ mapped)
  /\ UNCHANGED <<table, subscribers, pending_notifications_, file_callbacks_, todo,
                 readers, dropped>>

------------------------------------------------------------------------------
(* The subscribers (client.cc).                                            *)

Subscribed(c) == notification_fd[c] # NoFd /\ notification_fd[c] \notin hung_up

Told(ids, info) == IF info.deletion THEN ids \ info.ids ELSE ids \cup info.ids

(* GetNotification, for all objects of one message.                        *)
GetNotification(c) ==
  LET fd == notification_fd[c]
  IN  /\ Subscribed(c)
      /\ socket[fd] # <<>>
      /\ known' = [known EXCEPT ![c] = Told(@, Head(socket[fd]))]
      /\ socket' = [socket EXCEPT ![fd] = Tail(@)]
      /\ UNCHANGED <<table, subscribers, pending_notifications_, file_callbacks_,
                     fired, todo, sending, hung_up, crashed, dropped>>

(* The client closes its socket, or dies.                                  *)
HangUp(c) ==
  /\ c \in Mortal /\ Subscribed(c)
  /\ hung_up' = hung_up \cup {notification_fd[c]}
  /\ socket' = [socket EXCEPT ![notification_fd[c]] = <<>>]
  /\ UNCHANGED <<table, subscribers, pending_notifications_, file_callbacks_, fired,
                 todo, sending, known, crashed, dropped>>

------------------------------------------------------------------------------
Loop ==
  \/ SendOne \/ SendBlocked \/ SendFails \/ SendBroken \/ SendDone
  \/ Poll \/ \E fd \in Fds : Push(fd) \/ WriteCallback(fd)

Next ==
  \/ Loop
  \/ \E ids \in SUBSET ObjectIDs : SealObjects(ids)
  \/ \E id \in ObjectIDs : EraseObject(id)
  \/ \E c \in Clients :
       \/ SubscribeToUpdates(c) \/ DisconnectClient(c)
       \/ GetNotification(c) \/ HangUp(c)

Spec == Init /\ [][Next]_vars

(* The loop goes on, subscribers that have not hung up read, and a send    *)
(* that finds room again and again is not interrupted every time.          *)
FairSpec ==
  /\ Spec /\ WF_vars(Loop) /\ SF_vars(SendOne)
  /\ \A c \in Clients : WF_vars(GetNotification(c))

------------------------------------------------------------------------------
InfoType == [deletion : BOOLEAN, ids : SUBSET ObjectIDs]

TypeOK ==
  /\ sealed \subseteq ObjectIDs /\ changes \in 0 .. MaxChanges
  /\ notification_fd \in [Clients -> Fds \cup {NoFd}]
  /\ fresh \subseteq Fds
  /\ pending_notifications_ \in [Fds -> Seq(InfoType)]
  /\ mapped \subseteq Fds \ fresh
  /\ file_callbacks_ \subseteq Fds \ fresh /\ fired \subseteq Fds \ fresh
  /\ todo \in [Fds -> Seq(InfoType)]
  /\ sending \in mapped \cup {NoFd}
  /\ socket \in [Fds -> Seq(InfoType)]
  /\ \A fd \in Fds : Len(socket[fd]) <= Room
  /\ hung_up \subseteq Fds \ fresh
  /\ known \in [Clients -> SUBSET ObjectIDs]
  /\ crashed \in BOOLEAN
  /\ dropped \in [Fds -> SUBSET ObjectIDs]

(* A subscriber the store still serves.                                    *)
Live(c) == Subscribed(c) /\ notification_fd[c] \in mapped

(* What is on its way to a descriptor, in the order it will arrive.        *)
InFlight(fd) == socket[fd] \o pending_notifications_[fd] \o todo[fd]

(* What one who was told ids believes to be sealed after n more messages:  *)
(* the last of them that names an object decides.                          *)
After(ids, infos, n) ==
  {id \in ObjectIDs : \E i \in 0 .. n :
     /\ IF i = 0 THEN id \in ids ELSE id \in infos[i].ids /\ ~infos[i].deletion
     /\ \A j \in (i + 1) .. n : id \notin infos[j].ids}

(* As for the objects in about, the messages lead from ids to objects, and *)
(* none says what was known before.                                        *)
LeadTo(ids, infos, objects, about) ==
  /\ After(ids, infos, Len(infos)) \cap about = objects \cap about
  /\ \A i \in 1 .. Len(infos) :
       LET known_before == After(ids, infos, i - 1)
           named == infos[i].ids \cap about
       IN  IF infos[i].deletion THEN named \subseteq known_before
                                ELSE named \cap known_before = {}

(* A subscriber is told each change of the object table once and in the    *)
(* order it happened: what it knows and what is on its way to it is what   *)
(* the store has, whenever it subscribed, however slowly it reads and      *)
(* however often a send finds no room or is interrupted; and no            *)
(* notification says what it has been told already.  client.h:257-258      *)
(* promises that of every object; SendNotifications keeps it of all but    *)
(* those that the notification of a failed send was about.                 *)
NothingLostOrRepeated ==
  \A c \in Clients :
    LET fd == notification_fd[c]
    IN  Live(c) => LeadTo(known[c], InFlight(fd), sealed, ObjectIDs \ dropped[fd])

(* Between two handlers, a queue that is not empty has a callback that     *)
(* will send it, and a callback has a queue to send, unless its subscriber *)
(* has hung up.                                                            *)
CallbackIffPending ==
  Idle => \A fd \in mapped :
    fd \in file_callbacks_ <=> pending_notifications_[fd] # <<>>

(* The store looks for an erased queue only when a subscriber has hung up; *)
(* disconnections never bring it there.                                    *)
CrashNeedsHangUp == crashed => hung_up # {}

(* When the table no longer changes, every subscriber that reads learns    *)
(* what is in it, but for what a failed send was about.                    *)
SubscribersCatchUp ==
  \A c \in Clients :
    LET about == ObjectIDs \ dropped[notification_fd[c]]
    IN  <>[](Live(c) /\ ~crashed => known[c] \cap about = sealed \cap about)
=============================================================================
