------------------------------ MODULE MCRabbitMQ ------------------------------
(* The RabbitMQ transport: one consumer thread, two queues, two messages. *)
EXTENDS RabbitMQ
==============================================================================
