-------------------------- MODULE PopulationMergeInv --------------------------
(***************************************************************************)
(* The inductive invariant behind CachedRowsCurrent, in named parts.       *)
(***************************************************************************)
EXTENDS PopulationMerge

\* Copies of q's result as the origin had it at position n.
ResultAt(q, n) ==
    [k \in Keys |-> IF OriginAt(n)[k] \in Match[q] THEN OriginAt(n)[k] ELSE Absent]

\* The population holds rows it read at read_at.
Held(g) == phase[g] \in {"read", "staged", "pending", "merging"}

Quiet(i, j) == \A m \in (i + 1)..j : wal[m].op = "Other"

-----------------------------------------------------------------------------
(* SafeInv.                                                                  *)

\* The log and the images it leads through.
History ==
    /\ Len(image) = Len(wal) + 1
    /\ \A n \in 1..Len(wal) :
          /\ image[n + 1] = Effect(image[n], wal[n])
          /\ wal[n].op = "Insert" => image[n][wal[n].key] = Absent
    /\ \A i, j \in 0..Len(wal) : i <= j /\ Quiet(i, j) => OriginAt(i) = OriginAt(j)

\* The writer's positions in the log are ordered.
PositionsOrdered ==
    /\ received <= stamped /\ stamped <= replayed /\ replayed <= delivered
    /\ stamped <= marked /\ marked <= delivered /\ delivered <= Len(wal)

\* What an open, a closed and a committing frame say about the positions.
FrameOK ==
    /\ ~frame_open => delivered = marked
    /\ frame_state = "Idle" => /\ ~frame_open /\ delivered = received /\ img = cache
                               /\ frame_invalidations = {}
    /\ ~frame_open /\ frame_state # "Idle" => received < marked /\ wal[marked].last
    /\ task \in {"flush", "commit"} => ~frame_open /\ frame_state # "Idle"
    /\ task = "commit" /\ frame_state # "Recovering" => replayed = marked
    /\ \A i \in (marked + 1)..(delivered - 1) : ~wal[i].last
    /\ keepalive # 0 => /\ task \in {"flush", "commit"}
                        /\ marked < keepalive /\ keepalive <= Len(wal)
                        /\ Quiet(marked, keepalive)

\* Unstamped key removals belong to events replayed past the last boundary.
FrameKeysUnstamped ==
    frame_deleted_keys # {} \/ frame_toast_stale_keys # {} \/ frame_truncated =>
        stamped < replayed /\ frame_state # "Recovering"

\* The recorded keys: none without a population or after an overflow, and none
\* stamped ahead of the replay.
EntryOK ==
    /\ ~is_recording \/ overflowed => \A k \in Keys : keys[k] = 0 /\ stale_keys[k] = 0
    /\ \A k \in Keys : keys[k] <= stamped /\ stale_keys[k] <= stamped
    /\ \A g \in recording : floor[g] <= received

GenerationsOK ==
    /\ \A g \in Gens : phase[g] # "none" => g <= generation_counter
    /\ \A q \in Queries : qgen[q] <= generation_counter

\* A population's read precedes its snapshot LSN, its merge follows it, and until
\* the stream has passed the read its copies are untouched.
PopulationsOK ==
    \A g \in Gens : Held(g) =>
        /\ read_at[g] <= Len(wal)
        /\ read_at[g] # 0 => wal[read_at[g]].last
        /\ phase[g] # "read" => read_at[g] <= snapshot[g]
        /\ phase[g] = "merging" => snapshot[g] <= received
        /\ received < read_at[g] => staged[g] = ResultAt(popq[g], read_at[g])

\* A population registered after a TRUNCATE in the open frame read past that
\* frame's commit.
TruncateSeen ==
    frame_truncated => \A g \in Gens :
        Held(g) /\ population_is_current(g) => replayed <= read_at[g]

\* What the frame's transaction sees is current at the replay position.
FrameRowsCurrent ==
    frame_state # "Recovering" =>
        \A k \in Keys : img[k] # Absent => img[k] = OriginAt(replayed)[k]

\* A staged copy the stream has overtaken is still right, or something keeps it
\* out of the table.
Outdated(g, k) ==
    \/ img[k] # Absent \/ overflowed
    \/ keys[k] > floor[g] \/ stale_keys[k] > floor[g]
    \/ k \in frame_deleted_keys \/ k \in frame_toast_stale_keys

StagedRowsGuarded ==
    frame_state # "Recovering" => \A g \in Gens :
        Held(g) /\ population_is_current(g) /\ read_at[g] <= replayed =>
            \A k \in Keys : staged[g][k] # Absent =>
                staged[g][k] = OriginAt(replayed)[k] \/ Outdated(g, k)

SafeInv ==
    /\ TypeOK /\ History /\ PositionsOrdered /\ FrameOK /\ FrameKeysUnstamped
    /\ RecordingExact /\ EntryOK /\ GenerationsOK /\ PopulationsOK /\ TruncateSeen
    /\ CachedRowsCurrent /\ FrameRowsCurrent /\ StagedRowsGuarded
=============================================================================
