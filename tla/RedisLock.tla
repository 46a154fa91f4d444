------------------------------ MODULE RedisLock ------------------------------
(***************************************************************************)
(* The redis lock of app/pkg/base/redislock.go: a key holds the random id  *)
(* of the RedisLock that set it, until that lock deletes it or its time to *)
(* live runs out.  Each operation is one Lua script, so one step.          *)
(***************************************************************************)
CONSTANTS Keys, Ids, None

VARIABLE lock    \* the id each key holds, None when the key does not exist

LockInit == lock = [k \in Keys |-> None]

\* A key is there for the taking; a slip: SET without NX.
FreeAlways(k, id) == TRUE
Free(k, id) == lock[k] \in {None, id}

Acquire(k, id) == Free(k, id) /\ lock' = [lock EXCEPT ![k] = id]

\* The key goes only if it still holds the releasing lock's id.
Release(k, id) == lock' = [lock EXCEPT ![k] = IF @ = id THEN None ELSE @]

\* PX: 500 ms unless SetExpire says otherwise, whatever the holder is doing.
Expire(k) == lock[k] # None /\ lock' = [lock EXCEPT ![k] = None]

=============================================================================
