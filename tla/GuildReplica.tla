---------------------------- MODULE GuildReplica ----------------------------
(***************************************************************************)
(* The in-memory mirror of Discord (api/src/discord/replica.rs), the bot's  *)
(* gateway handlers that write it (bot/src/handler.rs, replica_sync.rs),    *)
(* the sweeps that follow a change (bot/src/revoke.rs) and the admission    *)
(* of a person into a room (api/src/permissions.rs).                        *)
(*                                                                         *)
(* A handler runs as a task of its own beside the others: its write is one  *)
(* step, under the replica's lock, and every query of the sweep that        *)
(* follows is another.  What an eviction does at LiveKit is in Rooms.       *)
(***************************************************************************)
EXTENDS ChannelPermissions, Naturals

CONSTANTS
  Guilds, Users, Roles, Channels, Handlers, None,
  Home,         \* the guild each channel belongs to
  Served,       \* DISCORD_ALLOWED_GUILDS
  Layouts,      \* what a GUILD_CREATE of each guild may carry
  Masks,        \* the masks a role may be given
  RuleSets,     \* the overwrites a channel may be given
  Grace,        \* how long the gateway may be down, in ticks
  MaxEvents,    \* model bound: events from Discord
  MaxJoins,     \* model bound: people who enter a room
  MaxFaults     \* model bound: queries that fail

RoleIds == Roles \cup Guilds

ChannelsOf(g) == {c \in Channels : Home[c] = g}
AnyRules      == SUBSET Overwrite(RoleIds \cup Users)

IsPartialFunction(f, A, B) == DOMAIN f \subseteq A /\ f \in [DOMAIN f -> B]

\* A role the guild does not have has the empty mask.
IsGuildData(g, d) ==
  /\ d = [owner |-> d.owner, roles |-> d.roles, members |-> d.members, channels |-> d.channels]
  /\ d.owner \in Users \cup {None}
  /\ d.roles \in [RoleIds -> SUBSET Bits]
  /\ IsPartialFunction(d.members, Users, SUBSET Roles)
  /\ IsPartialFunction(d.channels, ChannelsOf(g), AnyRules)

Stages == {"backfill", "occupied", "rooms", "list", "people", "evict"}
Tasks  == [at : Stages, guild : Guilds, rooms : SUBSET Channels, room : Channels \cup {None},
           people : SUBSET Users, victim : Users \cup {None}]

\* Roles are those with an id of their own: @everyone has its guild's.
ASSUME ReplicaAssumption ==
  /\ None \notin Guilds \cup Tasks
  /\ Roles \cap Guilds = {}
  /\ Home \in [Channels -> Guilds]
  /\ Served \subseteq Guilds
  /\ \A g \in Guilds : \A d \in Layouts[g] : IsGuildData(g, d)
  /\ Masks \subseteq SUBSET Bits
  /\ RuleSets \subseteq AnyRules
  /\ Grace \in Nat /\ MaxEvents \in Nat /\ MaxJoins \in Nat /\ MaxFaults \in Nat

VARIABLES
  mirrored,   \* State.guilds: the guilds in the replica
  guilds,     \* the data of each mirrored guild
  index,      \* State.channel_index
  connected,
  down,       \* ticks since disconnected_since, None without it
  row,        \* room_presence: the channel of each user, None
  tokens,     \* <<user, channel>>: LiveKit tokens issued; they outlive a room
  asking,     \* the request of each user under way, None
  handler,    \* the handlers under way, None
  excused,    \* people a sweep is known to miss; see README
  events, joins, faults

replica  == <<mirrored, guilds, index>>
link     == <<connected, down>>
door     == <<tokens, asking>>
counters == <<events, joins, faults>>
vars == <<mirrored, guilds, index, connected, down, row, tokens, asking, handler,
          excused, events, joins, faults>>

MirrorTypeOK ==
  /\ mirrored \subseteq Guilds
  /\ guilds = [g \in Guilds |-> guilds[g]]
  /\ \A g \in mirrored : IsGuildData(g, guilds[g])
  /\ index \in [Channels -> Guilds \cup {None}]

TasksTypeOK ==
  /\ connected \in BOOLEAN /\ down \in 0..(Grace + 1) \cup {None}
  /\ row \in [Users -> Channels \cup {None}]
  /\ tokens \subseteq Users \X Channels
  /\ asking \in [Users -> [channel : Channels, at : {"permissions", "info"}] \cup {None}]
  /\ handler \in [Handlers -> Tasks \cup {None}]
  /\ excused \subseteq Users
  /\ events \in Nat /\ joins \in Nat /\ faults \in Nat

Init ==
  /\ mirrored = {} /\ guilds = [g \in Guilds |-> None]
  /\ index = [c \in Channels |-> None]
  /\ connected = FALSE /\ down = None
  /\ row = [u \in Users |-> None] /\ tokens = {}
  /\ asking = [u \in Users |-> None]
  /\ handler = [h \in Handlers |-> None]
  /\ excused = {}
  /\ events = 0 /\ joins = 0 /\ faults = 0

-----------------------------------------------------------------------------
(* Reading.                                                                 *)

\* channel_info: the guild of a channel, None for one that is not mirrored.
InfoGuild(c) ==
  IF index[c] \in mirrored /\ c \in DOMAIN guilds[index[c]].channels THEN index[c] ELSE None

\* Replica::permissions, the empty mask for a channel that is not mirrored and
\* for someone who is not a member.
Permissions(u, c) ==
  LET g == InfoGuild(c)
  IN IF g = None THEN {}
     ELSE LET d == guilds[g]
          IN IF u \notin DOMAIN d.members THEN {}
             ELSE Resolve(d.roles, g, d.owner, u, d.members[u], d.channels[c])

MayJoin(u, c) == CanJoinRoom(Permissions(u, c))

Stale == ~connected /\ (down = None \/ down > Grace)

-----------------------------------------------------------------------------
(* The gateway's link.                                                      *)

\* ready, resume and shard_stage_update: every stage but Connected stamps the
\* disconnection, the second one in a row too.
SetConnected(up) ==
  /\ connected' = up /\ down' = IF up THEN None ELSE 0
  /\ connected # up \/ (~up /\ down # 0)
  /\ UNCHANGED <<replica, row, door, handler, excused, counters>>

Tick ==
  /\ down # None /\ down <= Grace /\ down' = down + 1
  /\ UNCHANGED <<replica, connected, row, door, handler, excused, counters>>

-----------------------------------------------------------------------------
(* Admission and presence.                                                  *)

\* room_access: stale answers 503; the caller's row is read before the replica.
Ask(u, c) ==
  /\ asking[u] = None /\ <<u, c>> \notin tokens /\ ~Stale
  /\ asking' = [asking EXCEPT ![u] = [channel |-> c, at |-> "permissions"]]
  /\ UNCHANGED <<replica, link, row, tokens, handler, excused, counters>>

\* 404 and 403, or the channel's name is asked for.
CheckAccess(u) ==
  /\ asking[u] # None /\ asking[u].at = "permissions"
  /\ asking' = [asking EXCEPT ![u] = IF MayJoin(u, @.channel) THEN [@ EXCEPT !.at = "info"]
                                     ELSE None]
  /\ UNCHANGED <<replica, link, row, tokens, handler, excused, counters>>

\* 404 for a channel that has gone, or the token is issued.
IssueToken(u) ==
  /\ asking[u] # None /\ asking[u].at = "info"
  /\ asking' = [asking EXCEPT ![u] = None]
  /\ tokens' = IF InfoGuild(asking[u].channel) = None THEN tokens
               ELSE tokens \cup {<<u, asking[u].channel>>}
  /\ UNCHANGED <<replica, link, row, handler, excused, counters>>

\* on_join: LiveKit let the bearer of a token in.  The replica is not asked.
Enter(u, c) ==
  /\ joins < MaxJoins /\ joins' = joins + 1
  /\ <<u, c>> \in tokens /\ row[u] # c
  /\ row' = [row EXCEPT ![u] = c]
  /\ excused' = IF MayJoin(u, c) THEN excused \ {u} ELSE excused \cup {u}
  /\ UNCHANGED <<replica, link, door, handler, events, faults>>

Leave(u) ==
  /\ row[u] # None /\ row' = [row EXCEPT ![u] = None]
  /\ excused' = excused \ {u}
  /\ UNCHANGED <<replica, link, door, handler, counters>>

-----------------------------------------------------------------------------
(* Events from Discord.                                                     *)

Event == events < MaxEvents /\ events' = events + 1 /\ UNCHANGED <<joins, faults>>

Begins(h, stage, g, c) ==
  /\ handler[h] = None
  /\ handler' = [handler EXCEPT ![h] = [at |-> stage, guild |-> g, rooms |-> {}, room |-> c,
                                        people |-> {}, victim |-> None]]

\* Nothing is left to do once the replica is written.
Ends(h) == handler[h] = None /\ UNCHANGED handler

\* The people of the rooms of g that are no longer mirrored.
Orphans(g, channels) ==
  {u \in Users : row[u] # None /\ index[row[u]] = g /\ row[u] \notin channels}

\* Mutant: the channels a guild no longer has stay in the index.
ReplaceGuildKeeping(g, d) ==
  /\ mirrored' = mirrored \cup {g} /\ guilds' = [guilds EXCEPT ![g] = d]
  /\ index' = [c \in Channels |-> IF c \in DOMAIN d.channels THEN g ELSE index[c]]

ReplaceGuild(g, d) ==
  /\ mirrored' = mirrored \cup {g} /\ guilds' = [guilds EXCEPT ![g] = d]
  /\ index' = [c \in Channels |-> IF c \in DOMAIN d.channels THEN g
                                  ELSE IF index[c] = g THEN None ELSE index[c]]

\* guild_create: an incomplete member list is fetched page by page first.  A
\* guild that is not served is not mirrored.
GuildCreate(h, g) ==
  /\ Event
  /\ IF g \in Served
     THEN \E d \in Layouts[g], stage \in {"backfill", "occupied"} :
            /\ ReplaceGuild(g, d) /\ Begins(h, stage, g, None)
            /\ excused' = excused \cup Orphans(g, DOMAIN d.channels)
     ELSE Ends(h) /\ UNCHANGED <<replica, excused>>
  /\ UNCHANGED <<link, row, door>>

\* guild_delete: an unavailable guild is kept.
GuildDelete(h, g) ==
  /\ Event
  /\ \/ /\ mirrored' = mirrored \ {g}
        /\ guilds' = [guilds EXCEPT ![g] = None]
        /\ index' = [c \in Channels |-> IF index[c] = g THEN None ELSE index[c]]
        /\ Begins(h, "occupied", g, None)
        /\ excused' = excused \cup Orphans(g, {})
     \/ Ends(h) /\ UNCHANGED <<replica, excused>>
  /\ UNCHANGED <<link, row, door>>

\* Every other write is to a guild that is mirrored, or is none.
Writes(g, d) ==
  /\ guilds' = IF g \in mirrored THEN [guilds EXCEPT ![g] = d] ELSE guilds
  /\ UNCHANGED <<mirrored, link, row, door, excused>>

Put(f, k, v) == [x \in DOMAIN f \cup {k} |-> IF x = k THEN v ELSE f[x]]
Drop(f, k)   == [x \in DOMAIN f \ {k} |-> f[x]]

UpsertMember(g, u, ids) == Writes(g, [guilds[g] EXCEPT !.members = Put(@, u, ids)])

\* guild_member_addition sweeps nothing: Discord sends it for a new member.
MemberAddition(h, g, u, ids) ==
  /\ Event /\ Ends(h)
  /\ g \in mirrored => u \notin DOMAIN guilds[g].members
  /\ UpsertMember(g, u, ids) /\ UNCHANGED index

\* Mutant: a change of roles is mirrored and nobody is checked again.
MemberUpdateUnswept(h, g, u, ids) ==
  Event /\ UpsertMember(g, u, ids) /\ Ends(h) /\ UNCHANGED index

MemberUpdate(h, g, u, ids) ==
  Event /\ UpsertMember(g, u, ids) /\ Begins(h, "occupied", g, None) /\ UNCHANGED index

MemberRemoval(h, g, u) ==
  /\ Event /\ Begins(h, "occupied", g, None)
  /\ Writes(g, [guilds[g] EXCEPT !.members = Drop(@, u)]) /\ UNCHANGED index

UpsertRole(g, r, mask) == Writes(g, [guilds[g] EXCEPT !.roles[r] = mask])

\* guild_role_create sweeps nothing: a new role is nobody's.
RoleCreate(h, g, r, mask) ==
  /\ Event /\ Ends(h)
  /\ g \in mirrored => \A u \in DOMAIN guilds[g].members : r \notin guilds[g].members[u]
  /\ UpsertRole(g, r, mask) /\ UNCHANGED index

RoleUpdate(h, g, r, mask) ==
  Event /\ UpsertRole(g, r, mask) /\ Begins(h, "occupied", g, None) /\ UNCHANGED index

\* remove_role also takes it from the members.
RoleDelete(h, g, r) ==
  /\ Event /\ Begins(h, "occupied", g, None)
  /\ Writes(g, [guilds[g] EXCEPT !.roles = [@ EXCEPT ![r] = {}],
                                 !.members = [u \in DOMAIN @ |-> @[u] \ {r}]])
  /\ UNCHANGED index

\* channel_create and channel_update: refresh_channel.
RefreshChannel(h, g, c, os) ==
  /\ Event /\ Begins(h, "list", g, c)
  /\ Home[c] = g
  /\ Writes(g, [guilds[g] EXCEPT !.channels = Put(@, c, os)])
  /\ index' = IF g \in mirrored THEN [index EXCEPT ![c] = g] ELSE index

ChannelDelete(h, g, c) ==
  /\ Event /\ Begins(h, "list", g, c)
  /\ Home[c] = g
  /\ Writes(g, [guilds[g] EXCEPT !.channels = Drop(@, c)])
  /\ index' = [index EXCEPT ![c] = None]

-----------------------------------------------------------------------------
(* The rest of a handler: the members' pages, and the sweep.                *)

At(h, stage) == handler[h] # None /\ handler[h].at = stage
Goes(h, task) == handler' = [handler EXCEPT ![h] = task]

Fault(us) ==
  /\ faults < MaxFaults /\ faults' = faults + 1
  /\ excused' = excused \cup us /\ UNCHANGED <<events, joins>>

\* backfill_members: a page names its members with the roles they had when it
\* was written; a page that is short, or fails, is the last.
Backfill(h) ==
  /\ At(h, "backfill")
  /\ LET g == handler[h].guild
     IN \/ /\ \E u \in Users, ids \in SUBSET Roles : UpsertMember(g, u, ids)
           /\ UNCHANGED handler
        \/ /\ Goes(h, [handler[h] EXCEPT !.at = "occupied"])
           /\ UNCHANGED <<mirrored, guilds, link, row, door, excused>>
  /\ UNCHANGED <<index, counters>>

\* sweep_guild: the occupied channels.
ListOccupied(h) ==
  /\ At(h, "occupied")
  /\ \/ /\ Goes(h, [handler[h] EXCEPT !.at = "rooms", !.rooms = {row[u] : u \in Users} \ {None}])
        /\ UNCHANGED <<excused, counters>>
     \/ Goes(h, None) /\ Fault({u \in Users : row[u] # None})
  /\ UNCHANGED <<replica, link, row, door>>

\* The next occupied channel, if the replica says it is of this guild.
NextRoom(h) ==
  /\ At(h, "rooms")
  /\ \/ \E c \in handler[h].rooms :
          Goes(h, [handler[h] EXCEPT !.rooms = @ \ {c}, !.room = c,
                     !.at = IF InfoGuild(c) = handler[h].guild THEN "list" ELSE "rooms"])
     \/ handler[h].rooms = {} /\ Goes(h, None)
  /\ UNCHANGED <<replica, link, row, door, excused, counters>>

After(h) == [handler[h] EXCEPT !.at = "rooms", !.room = None, !.people = {}]

\* sweep_channel: the people in the room.
ListRoom(h) ==
  /\ At(h, "list")
  /\ LET here == {u \in Users : row[u] = handler[h].room}
     IN \/ /\ Goes(h, [handler[h] EXCEPT !.at = "people", !.people = here])
           /\ UNCHANGED <<excused, counters>>
        \/ Goes(h, After(h)) /\ Fault(here)
  /\ UNCHANGED <<replica, link, row, door>>

\* The next of them: kept, or evicted, on what the replica says now.
CheckPerson(h) ==
  /\ At(h, "people")
  /\ \/ \E u \in handler[h].people :
          Goes(h, IF MayJoin(u, handler[h].room)
                  THEN [handler[h] EXCEPT !.people = @ \ {u}]
                  ELSE [handler[h] EXCEPT !.people = @ \ {u}, !.at = "evict", !.victim = u])
     \/ handler[h].people = {} /\ Goes(h, After(h))
  /\ UNCHANGED <<replica, link, row, door, excused, counters>>

\* evict: whatever LiveKit answers, the person's row goes.
Evict(h) ==
  /\ At(h, "evict")
  /\ Goes(h, [handler[h] EXCEPT !.at = "people", !.victim = None])
  /\ \/ /\ row' = [row EXCEPT ![handler[h].victim] = None]
        /\ excused' = excused \ {handler[h].victim} /\ UNCHANGED counters
     \/ Fault({handler[h].victim}) /\ UNCHANGED row
  /\ UNCHANGED <<replica, link, door>>

-----------------------------------------------------------------------------
Discord(h) ==
  \E g \in Guilds :
    \/ GuildCreate(h, g) \/ GuildDelete(h, g)
    \/ \E u \in Users : \/ MemberRemoval(h, g, u)
                        \/ \E ids \in SUBSET Roles :
                             MemberAddition(h, g, u, ids) \/ MemberUpdate(h, g, u, ids)
    \/ \E r \in Roles \cup {g} : \E mask \in Masks : RoleUpdate(h, g, r, mask)
    \/ \E r \in Roles : RoleDelete(h, g, r) \/ \E mask \in Masks : RoleCreate(h, g, r, mask)
    \/ \E c \in Channels : \/ ChannelDelete(h, g, c)
                           \/ \E os \in RuleSets : RefreshChannel(h, g, c, os)

Sweeps(h) ==
  Backfill(h) \/ ListOccupied(h) \/ NextRoom(h) \/ ListRoom(h) \/ CheckPerson(h) \/ Evict(h)

Door(u) ==
  \/ CheckAccess(u) \/ IssueToken(u) \/ Leave(u)
  \/ \E c \in Channels : Ask(u, c) \/ Enter(u, c)

Next ==
  \/ \E up \in BOOLEAN : SetConnected(up)
  \/ Tick
  \/ \E u \in Users : Door(u)
  \/ \E h \in Handlers : Discord(h) \/ Sweeps(h)

ReplicaSpec == Init /\ [][Next]_vars

-----------------------------------------------------------------------------
(* Properties.                                                              *)

\* The index and the guilds agree, both ways, and a guild that is not served is
\* never mirrored: an id left behind would answer for a channel that is gone
\* (replica.rs:79).
ReplicaIsSound ==
  /\ MirrorTypeOK
  /\ mirrored \subseteq Served
  /\ \A c \in Channels, g \in Guilds :
       index[c] = g <=> g \in mirrored /\ c \in DOMAIN guilds[g].channels

\* What the seven steps of resolve compute is what the most specific rule says
\* of every bit (discord.rs:108).
PermissionIsReference ==
  \A g \in mirrored :
    LET d == guilds[g]
    IN \A u \in DOMAIN d.members, c \in DOMAIN d.channels :
         Resolve(d.roles, g, d.owner, u, d.members[u], d.channels[c]) =
           {bit \in Bits : Granted(bit, d.roles, g, d.owner, u, d.members[u], d.channels[c])}

\* The sweep under way reaches this person in this room.
Covers(h, u, c) ==
  /\ handler[h] # None
  /\ \/ handler[h].at \in {"backfill", "occupied"} /\ handler[h].guild = InfoGuild(c)
     \/ c \in handler[h].rooms /\ handler[h].guild = InfoGuild(c)
     \/ handler[h].at = "list" /\ handler[h].room = c
     \/ handler[h].at \in {"people", "evict"} /\ handler[h].room = c /\ u \in handler[h].people
     \/ handler[h].at = "evict" /\ handler[h].victim = u

\* Whoever is in a room the replica says they may not be in is about to be
\* evicted by a sweep under way, whatever events, joins and sweeps overlap
\* (RF-08, revoke.rs:1); the people no sweep reaches are named in `excused`.
RevokedIsOwed ==
  /\ TasksTypeOK
  /\ \A u \in Users \ excused :
       row[u] # None /\ ~MayJoin(u, row[u]) => \E h \in Handlers : Covers(h, u, row[u])
=============================================================================
