---------------------------- MODULE FrameHandler ----------------------------
(* get_frame: paho's thread subscribes to an image topic and stores the    *)
(* subscription in topic_handle; the executor's image callback destroys    *)
(* it, clears the entry and publishes the frame.  No lock orders the two.  *)
EXTENDS BridgeThreads

CONSTANT Absent  \* a key the dict topic_handle does not have
ASSUME AbsentAssumption == Absent # None /\ Absent \notin Id /\ None \notin Id

VARIABLES
  topic_handle,   \* the dict, by camera and stream: the request subscribed for it
  subscriptions   \* the requests whose subscription is live

frameVars == <<topic_handle, subscriptions>>

ImageTopic == Camera \X SupportedStream
ImageTopicOf(id) == <<asked[id].cam, asked[id].arg>>

FramesTypeOK ==
  /\ topic_handle \in [ImageTopic -> Id \cup {None, Absent}]
  /\ subscriptions \subseteq Id

FramesInit ==
  /\ topic_handle = [t \in ImageTopic |-> Absent]
  /\ subscriptions = {}

-----------------------------------------------------------------------------
(* paho's thread.                                                          *)

\* A stream the camera does not have, or one whose frame is still awaited.
Busy(t) == topic_handle[t] \notin {None, Absent}

RefuseFrame(id) ==
  /\ Handle(id, "get_frame_request")
  /\ \/ asked[id].arg \notin SupportedStream
     \/ asked[id].arg \in SupportedStream /\ Busy(ImageTopicOf(id))
  /\ Answer(id, FALSE)
  /\ UNCHANGED <<mqtt, unanswered, frameVars>>

GetFrameUnchecked(id) ==
  /\ Handle(id, "get_frame_request")
  /\ asked[id].arg \in SupportedStream
  /\ subscriptions' = subscriptions \cup {id}
  /\ MqttGoes("storing", id)
  /\ UNCHANGED <<replies, unanswered, topic_handle>>

GetFrame(id) ==
  /\ Handle(id, "get_frame_request")
  /\ asked[id].arg \in SupportedStream /\ ~Busy(ImageTopicOf(id))
  /\ subscriptions' = subscriptions \cup {id}
  /\ MqttGoes("storing", id)
  /\ UNCHANGED <<replies, unanswered, topic_handle>>

\* The assignment to the dict, after create_subscription has returned.
StoreHandle(id) ==
  /\ Proceeds("storing", id)
  /\ topic_handle' = [topic_handle EXCEPT ![ImageTopicOf(id)] = id]
  /\ MqttIdle
  /\ UNCHANGED <<replies, unanswered, subscriptions>>

-----------------------------------------------------------------------------
(* The executor.  An image may come as soon as the subscription exists:    *)
(* before its handle is stored the key is missing, which raises, or holds  *)
(* None from an earlier request, and the image is ignored.                 *)

ImageBeforeHandle(id) ==
  /\ Starts
  /\ id \in subscriptions /\ asked[id].cam \in up
  /\ topic_handle[ImageTopicOf(id)] = Absent
  /\ ExecutorGoes("exited", id)
  /\ UNCHANGED <<replies, unanswered, frameVars>>

ImageCallback(id) ==
  /\ Starts
  /\ id \in subscriptions /\ asked[id].cam \in up
  /\ Busy(ImageTopicOf(id))
  /\ subscriptions' = subscriptions \ {topic_handle[ImageTopicOf(id)]}
  /\ ExecutorGoes("resetting", id)
  /\ UNCHANGED <<replies, unanswered, topic_handle>>

ResetHandleForgotten(id) ==
  /\ Continues("resetting", id)
  /\ ExecutorGoes("publishing", id)
  /\ UNCHANGED <<replies, unanswered, frameVars>>

ResetHandle(id) ==
  /\ Continues("resetting", id)
  /\ topic_handle' = [topic_handle EXCEPT ![ImageTopicOf(id)] = None]
  /\ ExecutorGoes("publishing", id)
  /\ UNCHANGED <<replies, unanswered, subscriptions>>

PublishFrame(id) ==
  /\ Continues("publishing", id)
  /\ Answer(id, TRUE)
  /\ ExecutorIdle
  /\ UNCHANGED <<unanswered, frameVars>>

HandleFrame(id) == RefuseFrame(id) \/ GetFrame(id) \/ StoreHandle(id)
ImageArrives(id) == ImageBeforeHandle(id) \/ ImageCallback(id)
ExecuteFrame(id) == ResetHandle(id) \/ PublishFrame(id)
=============================================================================
