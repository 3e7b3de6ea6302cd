--------------------------- MODULE MCGuildReplica ---------------------------
(* GuildReplica on a small instance: one served guild and one that is not.  *)
EXTENDS GuildReplica, TLC

CONSTANTS g1, g2, u1, u2, r1, c1, h1, h2

Alike == Permutations(Handlers)

Join == {"view", "connect"}
Rule(kind, target, allow, deny) ==
  [kind |-> kind, target |-> target, allow |-> allow, deny |-> deny]

TheHome == c1 :> g1
TheMasks == {{}, Join}
TheRules == {{Rule("role", g1, {}, Join), Rule("role", r1, {}, {"view"}),
              Rule("member", u1, Join, {})}}

Layout(ids, channels) ==
  [owner |-> u2, roles |-> (g1 :> Join @@ g2 :> {} @@ r1 :> {}),
   members |-> ids, channels |-> channels]

TheLayouts == (g2 :> {}) @@ (g1 :>
  {Layout((u1 :> {}), c1 :> {Rule("role", r1, {}, {"connect"})}), Layout(u1 :> {r1}, <<>>)})
=============================================================================
