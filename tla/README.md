# Verification of oldcode

`oldcode` is a collection of programs. Its core is **Mcast**, a user-space
router for *Geopaging*, a multicast protocol over IPv6 whose packets carry a
distance and are delivered only to the cells within it. Beside it are a probe
of a monitoring and a mail system, two exercises (netlink clients and a record
sender), a copy of part of iproute2, and the GUI of a trunking phone. This
directory models all of them but the last scripts, checks the models with TLC,
and proves the main properties of seven of them with TLAPS.

"The memoir" is the PDF in `src/Mcast`, which describes the protocol and the
authors' tests. Definitions are named as in the code where TLA+ allows; paths
below are relative to `src/`.

## 1. Inventory

| Component | State | Operations | Hard behaviour | What makes it correct |
|---|---|---|---|---|
| Routing table, `Mcast/src/RT.c` | global `todas_rutas` (count and rows) | rebuild from `/proc/net/ipv6_route` every 3 s, search by source, filter by range and by interface | the updater thread rewrites the table in place, without a lock, while contexts read it; the file is read twice | only whole rows are visible; the table follows the kernel's; the first match decides |
| Interface lists, `Mcast/src/IFS.c` | lists read at start | selection, lookup by name, comparison, children | one entry per address, not per interface | one copy of a packet per interface |
| Reception, `PCAP.c`, `main.c` | one thread per active entry | parse the headers, call the router | an option that is absent leaves the distance and a pointer unset | a packet is judged with its own distance |
| Forwarding, `GEOPAG.c` `GEOPAG_router` | locals of the thread | hop limit, RPF, distance of the routes behind each child, injection | a decision is spread over many reads of the shared table | never back, once per entry, one hop less, only towards cells within the distance |
| Distance, `GEOPAG.c` | the array `R` | labels, coordinates, distance | signs, truncation, zero components | never more than the crowns between two cells; symmetric |
| Injection, `NET.c` | none | copy a packet to an interface | the interface may have gone: the process exits; a write that fails is only printed | every copy is tried once, unless the process ends |
| The network of routers | tables of all routers, packets under way | messages, copies, table changes, link failures | duplicates, loops, tables in disagreement | a message reaches its area, nothing else, and leaves the network |
| Probe status file, `probeShinkenZimbra/check_probe.py` | one small file | set a status, report it | truncation and text are two steps, no lock, kills | a run that ends well leaves its status; a check answers it |
| Zimbra monitor, `probeMail.py` | the mailbox and the folders | file and delete each mail | numbers that shift, answers not looked at, death half way | only a mail whose COPY was refused is lost, few copies |
| Alarm call, `probe_alert_asterisk.sh`; `getMail.py` | none | a sequence of commands; print the mailbox | none | not modelled |
| Netlink clients, `cttc-exercici/esp2008` | a socket and a buffer | request, multipart reply, a second socket per link | errors of `socket`, `bind`, `send` and `recv` not looked at, a pointer that walks back, a buffer that fills | what is listed is what the kernel sent, each address with its own interface |
| Record sender, `cttc-exercici/exercici1` | a hash table, descriptors | read the file, send each record | a second reading at the end, descriptors that leak, unsigned numbers read as signed | each key is sent once, with its last attributes |
| Phone GUI, `GUIclient` | the window, the phone, files and handlers of the process | callbacks, signals, updates | signal handlers and another thread over the same phone and window, no lock | the values of the window are the state of the phone, and are drawn; nothing reaches an object that is not there |
| iproute2 code, `Mcast/src/libnetlink.c`, `UTILS.c`, `Mcast/include/ip_functions.c` | a handle with its sequence numbers, the global filter and its buffer | dump, talk, listen, send; the questions of `main_ol.c`; a flush; the parsers | answers of one request met by another, a loop that does not advance, dumps cut or refused | an answer is to its own request; of a dump all that reached the buffer is seen; a flush deletes what its filter means |
| Old copies, experiments, two scripts | | | | superseded, or input and output only |

How they interact: `main` reads the interfaces once and the table once, creates
the updater and then one *context* per active entry. Contexts and updater share
only `todas_rutas`. A context gets packets from libpcap by callback, calls
`GEOPAG_router`, which calls the functions of RT, IFS, the distance and NET. The
programs of different routers meet only through packets on links, filtered so
that a router does not hear itself. In the probe, cron starts the setter and
the monitor, NRPE the check; they share the file, and the monitor shares the
mailbox with Zimbra. The programs that speak rtnetlink run one at a time, each
against the kernel. In the phone the callbacks of the interface, the thread of
the trunking library and the handlers of two signals (the button of a PDA) run
over one `trunkClient` and one window.

PROJECT.json lists the components with their status, and the hazards at their
lines.

## 2. Modules

| Module | Models | Built on |
|---|---|---|
| `RT` | rows, one pass over the file, search and filters as functions | |
| `IFS` | interface entries and lists | `RT` |
| `Decision` | steps 2 and 3 of `GEOPAG_router` on a table that does not change | `IFS` |
| `GeopagRouter` | one process: updater, main, contexts, kernel | `Decision` |
| `Reenvio` | what a router promises of each packet (abstract) | |
| `Geopag` | the distance | |
| `GeopagNet` | a network of routers | `RT`, an instance of `Decision` per router |
| `AreaPaging` | what the network promises (abstract) | |
| `Seleccion` | what several of the programs do with a list: keep, in order, what qualifies | |
| `Sonda` | the status file of the probe | |
| `Correo` | the mail monitor | |
| `Telefono` | the phone's process: login, window, callbacks, handlers, library | |
| `Pantalla` | what of the window is drawn, and when | `Telefono` |
| `Registros` | the record sender | |
| `EspNetlink` | the two listings of `esp2008` and the kernel that answers them | |
| `Libnetlink` | the handle of `libnetlink.c`, its calls, any caller, the kernel | |
| `Utils` | the parsers of numbers, prefixes, types and hexadecimal | |
| `Iproute` | `iproute_get`, the filter of `print_route`, the flush | `Libnetlink`, `Utils` |
| `Rtattr` | attributes put in and found in messages, files of messages | |
| `Netlink` | the programs that speak rtnetlink, one in each behaviour | `EspNetlink`, `Iproute`, `Rtattr` |
| `MCMedidas` | `Geopag` on the cells of `MCGeopag`, and `Sonda`, one in each behaviour | `MCGeopag`, `Sonda` |
| `MCGeopagRouter`, `MCGeopag`, `MCGeopagNet`, `MCCorreo`, `MCTelefono`, `MCNetlink` | instances for TLC | |
| `GeopagRouterProofs`, `GeopagNetProofs`, `CorreoProofs`, `RegistrosProofs`, `TelefonoProofs` | theorems about the module each is named after | |
| `NetlinkProofs` | theorems about `Netlink` and the modules it is built on | `SeleccionProofs` |
| `MedidasProofs` | theorems about `Sonda`, `Geopag` and the cells of `MCGeopag` | `SeleccionProofs` |
| `SeleccionProofs` | lemmas: induction over numbers and sequences, functions defined by recursion, what `Seleccion` promises | |

### 2.1 GeopagRouter

`kernel` is the table behind `/proc/net/ipv6_route`. `cantidad` and `ruta` are
`todas_rutas`. `upc`, `contador`, `lineas`, `fila`, `j`, `campo` are the
updater inside `RT_parsea_from_proc`; `fase` and `creados` are main; `pc`,
`pkt`, `i`, `mascara`, `rutas`, `copia`, `downlink`, `inyectadas` are each
context inside `GEOPAG_router`. `vivo` falls when the process exits or faults, or
stores a row past the array. `intrusion` (what the updater did since a context
began its search) and `enviadas` (the copies `libnet_write` did send) are history.

Each access to the shared table is a step, in the order of the C statements:
the count, the two steps of `memset`, each stored field, `cantidad++`; the loop
test, the metric, the length (an argument by value), the network, the name; the
two ends of a row that is copied. Work on a thread's own data belongs to the
neighbouring step, so `Elige` is the whole of step 3 after the filter.

| Code | Action |
|---|---|
| `RT_bucle_parsea_from_proc` | `Despierta` |
| `RT_parsea_from_proc` 8-10, 14-15, 24-31, 39-51, 54, 58 | `Cuenta`, `Limpia` and `LimpiaNombres`, `Relee` and `Lee`, `Guarda` and `GuardaFuera` (no room), `Publica`, `Cierra` |
| `main` 52, 85 | `CreaActualizador`, `CreaContexto` |
| `PCAP_receptor_msg` | `Recibe`, `RecibeFalla` |
| `GEOPAG_router` step 1 | `Paso1`, `Paso1Descarta` |
| step 2, `RT_busca_ifaz_uplink` | `Busca`, `BuscaMetrica`, `BuscaMascara`, `BuscaRed`, `BuscaDev` |
| step 3, `RT_filtra_sitelocals_por_rango` and the rest | `Filtra`, `FiltraRango`, `FiltraCopia`, `FiltraCopiaDev`, `Elige` |
| step 4, `NET_libnet_inject`, the end of the loop | `Inyecta` (sent or not), `InyectaFalla` (the interface has gone), `Devuelve` |
| `fopen` that returns NULL | `AbreFalla` |

Undefined behaviour is a choice. A packet whose option does not begin with the
expected text leaves `distance` unset: `Distancia` gives any of `Distancias`. A
packet with destination options leaves the pointer of `sscanf` unset as well:
`RecibeFalla` ends the process, or `Recibe` goes on with any distance. A row stored
past the array (`RT.c:34` does not look at `MAX_RUTAS`) overwrites `rango_unicast`:
`GuardaFuera` ends the model there.

### 2.2 GeopagNet

One queue per context (`buzon`), in capture order; `Emite` (the agent) and
`Procesa` (one packet through the four steps) put copies in the queues of the
other routers of a link, as many as the router has downlink entries on it.
`CambiaTabla` gives one router another of its tables, `Cae` cuts a link.
`entregas` records, for each message and each *site* (a link to access points,
where no router listens), the hop limits of the copies handed over; `quietos` is
history, the messages sent since a table or a link last changed.

Here the table of a router is whole whenever it is read, and a link that has not
failed carries every copy; `GeopagRouter` is where neither is so. `DecisionExacta` is the bridge: a context that the updater
does not disturb decides exactly as `Decision!Decide` says.

### 2.3 Sonda and Correo

`Sonda`: a run with `-s` is three steps (read, truncate, text), a check is one.
The text reaches the file when the process ends, because `yaml.dump` writes to
a buffered stream nobody closes. Exit code 1 is WARNING and also what Python
gives for a traceback.

`Correo`: each statement of the loop that talks to the server is a step
(`Lee`, `Copia`, `Marca`, `Cierra`), with the answers that end the script in a
traceback (`LeeFalla`, `MarcaFalla`). The server is external, after RFC 3501:
flags and folders survive a lost connection, CLOSE removes what anybody marked,
and a COPY may report removals, which renumbers the session's view. A COPY is
refused when the folder or the mail is not there, and may be for the server's own
reasons; the script does not look at its answer (`probeMail.py:37-46`). `renumera`,
fixed in a behaviour, says whether the server renumbers; `solapadas` (two runs
have been alive at once) and `rechazadas` (mails of which a COPY was refused) are
history. `Purga` is what CLOSE
leaves of the mailbox, in order.

### 2.4 Telefono

`pc` has three threads: `gui` (the callbacks and `main`), `lib` (an update made
by the library) and `sig` (a handler, which suspends `gui`). `libreria` is
`trunkClient`, external: it changes when told to and when the network says so,
and follows every change with a TRUNKING_EVENT. `proc` is the process: the
phone, the window and whether it is registered, the pid file, the handlers,
`exitted` and the error windows of the login. `fallo` says how it died: two
threads that write the same strings at once are undefined, so `Colision` may end
the process, and the steps may also go through one after the other.

Each look at the phone and each change of a widget is a step, in the order of
the C++ statements: `updateWidgets` reads whether the phone is configured, then
the association, then the voice state, and then writes the texts (`w1` to `w6`);
`leido` is what each thread has read. `cb_list_i` is `ListaRama`, `Deja`,
`PsmInit`, `Elige`, `joinGroup`. `solapada` (the last update of the window
overlapped another) and `cruzada` (the last choice of a group was refused or was
made while another was unanswered) are history.

The widgets of the model are their values. `Pantalla` adds what was last drawn of
one, `dibujado`: FLTK draws after a callback and after an event that wakes its loop,
and the library's thread, which calls `updateWidgets` too, does not wake it.

### 2.5 Registros

`Lee` is the reading at the head of the loop: a line goes to the table, and one
with a field missing ends the process (`atoi` of a null pointer). When it gives no
line, at the end or for a failure, the file is read once more (`Relee`) and the loop
ends whatever comes: a line added in between is lost (`perdidas`), and a failure
leaves the rest unread. Identifiers in the file go up to `2 * Mitad - 1`, as the
unsigned integers the comments speak of (`exercici1.c:104-106`); `atoi` is that of the
build, signed, and gives `Mitad - 1` from there on. `Envia`
takes the keys in any order, that of the hash; a send that fails returns without
closing its socket.

### 2.6 The programs that speak rtnetlink

`EspNetlink`: `Zocalo` is the socket in use, main's or that of
`get_interface_ip`; `recv_reply` fills `buf`, of `BUFSIZE` units, with datagrams
of the kernel (`Sigue`) until its end or until it is full. `recv_falla`, before
anything came or later, once or more, takes one byte from the pointer and from the
total: what comes next is written out of place (`Llena`), and at the end the total
does not reach the last message (`Legibles`). A socket may not be opened, which is
not looked at: `recv_sin_zocalo` walks the pointer back through the stack until what
is there passes for NLMSG_DONE or the process dies. `mandado` is history: what the
kernel sent.

`Libnetlink`: one action per call up to its `recvmsg` (`llama_...`), and one for
each datagram it then reads, because nothing can happen between two messages of
a datagram. `fase` is the call in progress; `"gira"` is the loop of `rtnl_talk`
that examines a message of another request again and again. `Acepta`, `Vuelca`,
`Llegan` and `Avisa` are the kernel: replies in order, one dump at a time on a
socket, replies it has no memory for, notices. `hecho` (requests carried out),
`enviado` (what of a dump reached the reader's buffer: a datagram that does not fit is
cut, and the reading goes on), `mirado` (what the filter of a flush, or the table of
links, was given) and `restos` (something was left unread) are history. `LibLlama` is any caller; `Iproute` has the two in the repository:
`iproute_get`, the question `main_ol.c` asks twice, and a flush with
`print_route` as filter, whose caller is not in the repository.

`Utils` and `Rtattr` are functions: the result of a parser for a text given by
what it says (its number, its groups, whether it is whole), with integers of
`BitsLong`, `BitsCorto` and `BitsByte` bits, saturation, wrap and sign included.
The inputs their promises range over are constants (`NumerosTexto`, `Direcciones`,
`Cadenas`, `Huecos`, `Listas`, `Ficheros`), each a set of the values the code can meet.

`Netlink` puts the programs together: `cliente` is the one that runs, the two of
`esp2008`, one of `Iproute`, or `"lector"`, which only uses the parsers.

## 3. Properties and runs

Every property is stated in the module with the code it is about; every run has
an entry in PROJECT.json. Runs that pass:

- **RouterCambia** (1.7 million states). Two contexts and the updater in full
  interleaving, the kernel switching between two tables, each of which fits. `TypeOK`;
  `FilasPublicadas`, rows are visible only when whole, in order, and all of them
  at the end of a pass; `SoloDesbordaLectura`, a row goes past the array only when one
  table is read with the count of another and they give more rows than it holds, which
  does happen; `SoloDondeDebe`, a search not overtaken by `memset`
  forwards only where the published rows send the packet; `DecisionExacta`.
- **RouterVive** (140 thousand states). One context at a time, an interface with two
  addresses, so that a packet has two copies, and a table whose one row ends every
  search. `PrometeReenvio`, the refinement
  of `Reenvio`: each copy is tried once, whatever became of the ones before;
  `SiempreVuelve`, a context always comes back for its next
  packet; `TablaAlDia`, once the kernel's table is stable the router's becomes
  equal to it again and again.
- **RedCambia**. The network of chapter 5, each router going on its own between
  the tables of test 1, those of test 2 and some that point round in circles
  (also for the source, so that RPF lets a message turn), with link 1 failing and
  messages sent at any moment. `AvisaElArea`, the refinement of `AreaPaging`: no
  site outside the area is ever paged. `ResultadoPruebas`: a message sent to the
  network once it has settled is seen where, as often and with the hop limits
  the authors report (5.4.4, 5.5.4), whatever the transition left in the queues.
  `AvisaEnReposo`: it does reach its whole area. `SeVacia`: no copy lives for ever.
- **Medidas**. Two small programs that share nothing, one in each behaviour. The
  distance, on 7776 pairs of three-level cells and on the cells of the memoir's
  tests: `DistanciaSegura`, symmetric and never above the number of crowns, and
  `DistanciasMedidas`, equal to table 5.2. The probe, whose runs with `-s` overlap and
  one of which may be killed: `NuncaVacioEnReposo`, the file is empty only while a run
  has it truncated or after one was killed then.
- **CorreoSesiones**. Two runs of the monitor that may overlap and one of which
  may die, on either kind of server, which may refuse any COPY.
  `SoloSePierdeRenumerando`: a mail is lost only if a COPY of it was refused, or when
  runs overlap on a server that renumbers; `UnaCopiaPorCorte`: a mail is
  filed in one folder, and without overlap once and once more for each death; `SeArchiva`: every mail
  leaves the mailbox, and but for those two cases is filed.
- **TelefonoPDA** (2 million states). Callbacks, updates and signals in full
  interleaving, from the login to the end. `ValoresAlDia`: when nothing is going
  on the values of the window are the state of the phone, whoever changed it in the
  middle of an update, unless the last update overlapped another. `GrupoMostrado`: the
  group named as joined, before it is asked for, is the one the phone is in,
  but after a refusal or a choice made while another was unanswered.
  `SoloFallaAlSalir`: nothing reaches a window or a phone that is not there
  before the user quits, and a signal kills only between the pid file and its
  handler.
- **RegistrosEnvia**. A file that grows while it is read, keys that repeat, short
  lines, readings and sends that fail. `EnviaLaUltima`: one datagram per key,
  with the attributes of its last line, where the identifiers from the largest signed
  integer on are one key; `TodoSeEnvia`: what was read and not sent
  is accounted for; `Descriptores`: those open are the sends that failed.
- **Netlink**. The programs of 2.6, one in each behaviour. The listings:
  `ListaFiel`, what is read is what the kernel sent, but for what comes when the
  buffer has filled, and, when a `recv` failed, for the last message or else the end of
  the last before it and all that came later; `DireccionSuya`, the address of a line is one
  of that very interface; `ListadoTermina`, however many `recv`s fail and whatever
  sockets are not opened, the listing ends with every socket closed, unless a request was
  refused or the process died, which takes a `recv` that failed before anything came.
  The library with any caller:
  `ListaCompleta`, of a dump read to its end all that reached the buffer is listed, in
  order (what a datagram cut at 8192 bytes lost is not, and the call returns 0 all the
  same, `libnetlink.c:191-194`);
  `RespuestaPropia`, `rtnl_talk` returns 0 only with the answer to its own
  request; `ColaLimpia`, between calls nothing is left unread, and `rtnl_talk`
  turns for ever only after a callback cut a call, an order failed unheard or an
  answer was cut; `LlamadasVuelven`. `main_ol.c`: `ConsultaCompleta`, a 0 means that
  both questions were carried out and, before them, the table of links was told of every
  link that reached the buffer; `ConsultaAcaba`. A flush: `BorraLoPedido`, the routes deleted and those still in
  its buffer are those its filter means, as sets of addresses. The parsers, over
  all texts around every limit: `PruebaEnteros`, `PruebaPrefijos`, `IdaYVuelta`
  (the name of a type is that type, but for 0, whose "none" is refused; hexadecimal that
  has its end is read back, and nothing is said of a text without it, which the reader
  would leave behind, `UTILS.c:484-502`; nobody in the repository calls either), `PruebaAtributos` (messages never outgrow the
  length given and `parse_rtattr` finds the last of each type), `PruebaFichero` (a
  file cut anywhere gives what was before the cut). They are evaluated in the
  states of a third client, `lector`, which does nothing else. The run starts from
  one value of the variables of each program that does not run, and from all the
  tables only for a flush (`MCInit`).

Runs that TLC refutes, each a disagreement between code and a statement of the
repository (findings in PROJECT.json):

- **RouterRPF**: a packet passes RPF on the wrong interface because its search
  overlaps the rebuilding of the table.
- **CorreoSolapado**: runs overlap on a server that renumbers and a mail is
  deleted without a copy, none of its COPYs refused (`probeMail.py:37`, "Store mails
  for future study"). A mail whose own COPY is refused is lost too, by a run that is
  alone: `SoloSePierdeRenumerando` of CorreoSesiones names that loss.
- **TelefonoPantalla**: an update made by the library while the interface waits sets the
  values of the window (`GUIclient.cpp:413`, "we draw in status the current state via the
  callback") and nothing draws them.
- **RegistrosGrandes**: a line whose identifier, an unsigned integer of 32 bits, is more
  than a signed one holds is sent with another identifier.

Two things the runs do not count as errors. While tables change a site may be
paged twice: a router that changes its table between two copies of a message
takes both (`ResultadoPruebas` speaks of a network that has settled; nothing in
the code or the memoir promises more). And table 4.1 of the memoir prints 59 as
the size of a level-4 cluster where the code computes 50; with 59 the distances
of table 5.2 do not come out, so it is a misprint (the mutant `RImpreso`).

Other things seen in the code, which no run is about:

- Router. An unreachable row, of whatever network, ends the search before the rows after
  it (`RT.c:108`), where `RT.c:104` says that the first match is the one that counts:
  the route of a failed link drops the packets of sources that a later row covers. The
  model's search ends there too. `abs` of one coordinate only
  (`GEOPAG.c:128`) puts some cells two crowns apart at distance 1. An interface
  with two site-local addresses is two entries, so each packet is sent on it
  twice. The distance is measured to the network address of a route whatever its
  length, so a cluster written with zeros is measured to its cell 0, not to its
  center as the memoir's 5.3 takes for granted.
- Probe. A run killed between truncation and text leaves a file that no later
  run can set, because it reads it first (`check_probe.py:20`); a check made
  while the file is truncated exits with 1, the code of a traceback; without a
  folder `Unknown` every COPY of a mail that is not the probe's is refused, so that all
  of them are deleted.
- Phone. The button of an error window sets `exitted` again
  (`GUIclient.cpp:81`): after an accepted login it ends the program. NO GROUP
  chosen while a `joinGroup` is unanswered leaves the phone in the group with
  "No Group" shown. The branches marked MAY NEVER ENTER HERE are reached. The
  status keeps "Connected to group" after the group is lost. The signal sends an
  emergency while talking, which the button of the window does not. The window
  is destroyed before the phone it observes.
- `rtnl_from_file` does not look at how much of a header it read
  (`libnetlink.c:408`): a cut inside the header of the last message gives a
  message more (`PruebaFichero` says so). `parse_rtattr` reports a deficit for a
  message whose last attribute is not padded, which `addattr_l` builds.

## 4. Bounds

- Router: an array of three rows (`MAX_RUTAS`; two in RouterVive): a row before, at and
  after the one that decides. The two tables of RouterCambia fit in it, but not one of
  them read with the count of the other; one source, one group, hop limits 0 to 2 (expire,
  last hop, one left), one distance, that of the one cell; in RedCambia, which
  takes the same decision, the distance of a message does leave cells out. `UnPaquete`, a
  state constraint in RouterVive, lets one context at a time hold a packet:
  contexts write nothing the others read. Only `Recibe` leads out of it, and
  `Recibe` is not fair: under the constraint liveness is that of the same system
  with a stronger guard on `Recibe`. RouterCambia has no such bound.
- Addresses are pairs and lengths 0 to 2: no match, network match, host match.
- The memory is sequentially consistent; an interface name (10 bytes) is copied
  at once; the file is read in one block after `rewind`. Weaker assumptions
  would add torn names and torn files, not remove the ones shown.
- Distance: six of the eight labels on three levels; 2 is the mirror of 1, 7 is
  3. Level 4 through the cells of the memoir.
- Network: the memoir's three routers, four interfaces each, two messages, of
  the two distances the authors used; one link may fail. The hop limit is 4
  where the tests use 32: enough for the longest path and a turn and a third of
  the loop, and the results are stated relative to it. Queues are not bounded.
- Probe: two runs at once, one death; a mail of the probe and another, two of the
  three kinds the monitor tells apart, or all three (CorreoSolapado).
- Phone: two groups (symmetric), one change that comes from the network, one
  press of the button, one error window: each is enough to come in the middle
  of every update and callback. `UnaEnLlamada`, a state constraint, lets the press
  and the change meet only while no callback runs; either meets the callbacks.
- Records: three lines, identifiers on both sides of the largest signed integer
  (`Mitad` = 4: two below 3, and 6 and 7), one descriptor: one failed send uses them up.
- Netlink: a buffer of 8 units and messages of 3, so that a third is cut; two `recv`s
  that fail in a reading (`MaxFallos`), fewer than a message has bytes, so that the total
  short by them loses one message and not two; a stack of 2 bytes (`Pila`) before the buffer.
  Both stand for what the code does for up to four failures: a header up to
  four bytes out of place shows `NLMSG_OK` a length that is more than the buffer (its
  bytes are those of the type and the flags), so nothing behind it is read; with more,
  it depends on the bytes of the messages. Dumps of
  two messages and listings of three, so that they span datagrams; two requests of
  any caller, three of the program; one lost reply and one notice. Numbers of 7, 3
  and 2 bits for `long`, `short` and `char`, texts one past every limit; addresses of
  2 and 3 bits. The flush buffer holds one route, so it is emptied half way.

## 5. Fairness

- `GeopagRouter!FairSpec`: weak fairness of the updater, of main, and of each
  context that has a packet. They are threads of a preemptive scheduler that
  never block on one another (there is no lock); the updater's sleep ends.
  None for packets, kernel changes and failures.
- `GeopagNet!FairSpec`: weak fairness of each context's `Procesa`. None for
  agents, table changes and link failures: `AvisaEnReposo` promises nothing of
  a message under way when the network changes again, and the memoir's tests
  wait for it to settle.
- `Correo!FairSpec`: weak fairness of the runs, since cron starts the script
  every hour; at most `MaxCortes` deaths.
- `Netlink!Justicia`: weak fairness of the programs, which only wait in `recv`, and
  of the kernel's dumps, which go on when the queue has been read. None for
  notices and for a caller's next call. A call that waits for a reply the kernel
  lost, or that turns for ever, is an exception the properties name. No liveness is
  stated of the flush.

`CHECK_DEADLOCK FALSE` is set where the program ends: the router whose process has
exited (`vivo`), the distance once returned, the phone, the record sender and the
netlink programs.

## 6. Proofs

Each theorem holds for all values of the constants that meet the assumptions
named in its module. All proofs are of safety.

**Router** (`GeopagRouterProofs`; `DireccionAssumption`, `DevAssumption`,
`IfacesAssumption`, `TablasAssumption`, `PaqueteAssumption`):

- `TypeCorrect`: `Spec => []TypeOK`, for tables of any length. It says nothing of the
  array beyond that no row is counted past it, which holds because the model ends at
  the store of such a row. `IInv`, the strengthening, says what each phase of the
  updater has already done.
- `OverflowsOnReading`: `Spec => []SoloDesbordaLectura`. The lines in hand are a
  reading of one table of the kernel with the count of another (`LInv`) and the rows
  published are the site-local ones among those passed (`FInv` of `WholeRows`), so that
  one more and no room means that the reading has more than fit. No assumption says
  that the tables, or their readings, fit.
- `Forwarding`: `Spec => []SoloDondeDebe`. A context that is past its loop test
  holds a number of rows it has seen; `VInv` says what its locals owe to
  the published rows at each program point unless `intrusion` is `"pisada"`:
  during the search no earlier row matches the source; after it the packet came
  by the interface those rows name; during the filter every copied row is one of
  them. Publication of more rows keeps all of it, because a longer table has the
  same first match and a larger set of rows.
- `WholeRows`: `Spec => []FilasPublicadas`, for any table of the kernel. `FInv`
  follows a pass through its iterations: the rows published are the site-local
  ones of the lines read (`Escoge` of a prefix of the table), the row after them
  holds the fields stored so far, and the counter gives how many lines are left.
- `ExactDecision`: `Spec => DecisionExacta`. `Forwarding` says that what a context
  copied is of the table; here every row in range that its second loop has passed
  must have been copied, and a search that ended early must have had reason to, so
  the invariant also says what each loop has left behind.
- `Implementation`: `Spec => PrometeReenvio`, in which each copy is tried and one that
  `libnet_write` fails to send is lost. The initial states map to initial
  states and each step to a step of `Reenvio` or a stutter, under `RInv`, which
  ties the hop limit in hand and the chosen entries to the program point.

**Network** (`GeopagNetProofs`; `RedAssumption`). `NetworkPagesAreas`: `Spec =>
AvisaElArea`, the refinement of `AreaPaging`, for any routers, links, messages and
tables, however the tables change and whatever fails, under one hypothesis,
`TablasFieles`: the networks of the cell range a router sends by an interface that
leads to access points are cells of that site. Nothing is asked of the tables
towards other routers: they may loop. The invariant says that only messages that
were sent are under way; each processed packet maps to one step that hands its
message to the sites not handed before, which are in the area because each entry
chosen has a network within the distance. The tables of RedCambia meet the
hypothesis.

**Status file** (`MedidasProofs`). `NuncaVacio`: with the types, which say that what a
run is about to write is a status, the property is inductive, for any number of runs.

**Distance** (`MedidasProofs`; `GeopagAssumption`: one to seven levels, cells of
them). `SafeDistance`: `DistSpec => []DistanciaSegura`, for every pair of cells, where
the run measures 7,776 pairs of three levels and the memoir's. The property speaks of
the end of the loop; the invariant `DInv` says that what has been added is the sum of
the levels passed. Below it: the entries of `R` are 1, 3, 8, 19, 50, 130 and 344 (`RTamano`), labels are rows of the
table of coordinates, the sums of opposite differences are opposite, so the way
back has the opposite vector and the same value. `MeasuredDistances`: `DistSpec =>
[]DistanciasMedidas` for five levels or more, whatever other pairs are measured. The
center of the authors' tests and their routes differ on five levels (`VectorMedido`); it
is the size 50 of the fourth that gives the distances of table 5.2, and 59, printed in
table 4.1, does not.

**Mail monitor** (`CorreoProofs`; `CorreoAssumption`: a finite set of mails).
`TypeCorrect`, and `NadaPerdido`: `SoloSePierdeRenumerando`, for any folders, of which
none need exist, and any refusals. The property is not inductive: a mail is deleted by
CLOSE long after its COPY. The strengthening says that a mail flagged as deleted has been
filed or its COPY was refused (`Copiado`), that the same is so of the mail a run is about
to flag, or it has left the mailbox, and that a run that has been alone sees a prefix of
the mailbox, so that the number it flags is that of the mail it asked to copy. `UnaPorMuerte`: `UnaCopiaPorCorte`, for any folders: a mail
of the mailbox has more copies than there were deaths only if the run in course has
copied it, and what that run has done with is flagged, so that its CLOSE removes it.

**Record sender** (`RegistrosProofs`). `UltimaEnviada`, `Completa`, `Cerrados`, the
three properties of the run, for every file. The invariant relates the table to the
lines read (the value of a key is that of the last line `atoi` gives that key for) and, while sending, the keys
left, sent and failed.

**Phone** (`TelefonoProofs`; `TelefonoAssumption`). `SoloAlSalir`:
`SoloFallaAlSalir`. The invariant says which points each thread can be at (`Control`),
what exists at each point of `main` (`Vida`), that an update runs only over a
registered window (`Ventana`), and which handlers are installed (`Manejadores`).

The second half of the module goes on from there. `WidgetsHoldState`: `ValoresAlDia`, for any
groups, buttons and changes from the network; of what is drawn nothing is proved, and
`TelefonoPantalla` shows that it may be older. While there is no event to deliver and
the last update overlapped no other, what the one thread inside `updateWidgets` has
read so far agrees with the phone point by point (`Lectura`), because every change
leaves an event; and the values of the window agree with the phone when no thread is inside.
`GroupShown`: `GrupoMostrado`. The status names the group last chosen or another
text, and that group is, in turn, the one chosen, asked for and joined (`Elegida`),
if the choice is not refused nor made over another.

**Netlink library** (`NetlinkProofs`; `LibAssumption`). `OwnAnswer`:
`RespuestaPropia`, for any caller, any dumps, notices, refusals and losses. A
message of the queue that carries the handle's port and is no error answers a
request already made; one with the number of the last `rtnl_talk` is there only if
the kernel carried that request out, and is a route if an answer was asked for;
no dump has that number, because numbers only grow. `NothingLeft`: `ColaLimpia`. The
invariant (`LInv`) says what each phase of a call may find in the queue while nothing
has been left unread: nothing between calls; at most one datagram of a dump, and no
final message before the kernel is done; at most two of an answer, all with the
number of the request, the second only for a caller that wants no answer and whose
reading the first does not stop.

`CompleteList`: `ListaCompleta`. From the request of a dump to the
end of its reading only the first datagram of the queue may hold something the
filter takes for the dump (`EnLectura`); what the filter was given, followed by that,
is what the kernel delivered into the buffer, whatever stale replies, errors and notices
are about. What a datagram too large for the buffer lost was not delivered, and the
theorem does not say that nothing was.

**Listings** (`NetlinkProofs`; `EspAssumption`). `FaithfulList` and `OwnAddress`:
`ListaFiel` and `DireccionSuya`, for a buffer and messages of any size, of which no
message fills the buffer by itself (8192 bytes), and any number of failing `recv`s fewer
than the bytes of a message (`MaxFallos < Largo`), or without limit where no socket was
opened. What a buffer holds is the beginning of what came from its socket: all of it until
a datagram comes behind a failure or the buffer is full, and until then the total is that
of the messages less one for each failure (`Recibido`), which `NLMSG_OK` takes for one
message less at most (`Alcanza`). What came is all that was sent but for one datagram,
that still in the queue. A reader without a socket is sent nothing, and a process that has died
reads nothing (`EVive`).

**Questions and flush** (`NetlinkProofs`; `IprouteAssumption`: the kernel and whoever
sets a filter give addresses of their family's size, lengths within it, and no filter
for which `print_route` is undefined, see `Pisa`). What `iproute_get` does is what any
caller of the library may do (`ConsultaDeLib`), so the invariants above are its own. A flush
does more: its filter sends orders over the handle while the dump is read, which is no step
of the library's. `GInv` adds that it reads the dump it asked for before anything else
(`Ordena`); with that its orders, which may only put errors and losses behind what is in the queue, keep the
same invariants (`MandaI`, `MandaL`, `MandaV`, `VaciaDeLib`).

- `LibraryKept`: `IpSpec => [](ListaCompleta /\ RespuestaPropia /\ ColaLimpia)`, what the
  library promises, for these two callers.
- `WholeQuery`: `IpSpec => []ConsultaCompleta`. `iproute_get` leaves nothing in its queue, so
  its calls have the numbers 1, 2 and 3 and `rtnl_talk` never turns; a program that
  ended with 0 has the answers to 2 and 3, and since the end of the dump of links
  `mirado`, what the table of links was told of, is what the kernel delivered
  (`Conocidos`, from `LibraryKept`).
- `FlushesAsked`: `IpSpec => []BorraLoPedido`, for addresses, words and a buffer of any
  size. `EligeLoPedido`: comparing words and the bits left over, for the shorter of two
  lengths, chooses the routes whose sets of addresses are those asked for. `AlDia`: the
  routes deleted, then those in the buffer, are those chosen of the dumps seen, in
  order; each datagram and each emptying of the buffer keeps it (`RecorreBorra`), and
  when `print_route` could not make room the flush has ended (`Fallido`).

**The programs together.** `ClientsFaithful`: `Netlink!Spec` implies all of the
properties above, `Spec` being what the run checks and a step of it one of the program
that runs.

**Parsers** (`NetlinkProofs`; `UtilsAssumption`, `RtattrAssumption`). Each theorem states
what the parsers promise of every input in the constants, and the property of the run
with it. `AttributesFound` (`PruebaAtributos`) goes by induction on the attributes: in
what is built `parse_rtattr` does not stop before the end and is left with minus the
padding (`Cabal`), and bytes put behind change nothing of what it found (`Desplaza`).
A length is one that fits the 16 bits of `rta_len`. `FileReadToItsCut`
(`PruebaFichero`): only the last record of a file may lack part of its header.
`IntegersRead` (`PruebaEnteros`) and `PrefixesRead` (`PruebaPrefijos`) hold for types of any
width, in which a byte is narrower than a short and that than a long, and the bits of an
IPv6 address can be counted with an int: a limit is
written as a function of the width (`DosA`), of which it is proved that it doubles at each
bit; of powers with a variable exponent the provers know nothing.
`RoundTrip` (`IdaYVuelta`): the types by cases on the abbreviation, 0 with them, the bytes by
what fits three characters each; a text is read back only if it has its end.

**Induction.** The library's induction theorems take an operator as a parameter,
which the installed provers cannot instantiate. `SeleccionProofs` states what is needed
about *sets* instead: a set of numbers with 0 and the successors of its members has all of
them (`Induccion`, from `WellFoundedInduction`), the same for sequences and `Append`
(`InduccionSec`), and a function defined by its next value exists (`Recurre`). With
them a recursive function of the model (`Escoge`, `Sumas`, `Vueltas`, `Monta`) is
proved to satisfy its equations. The operators of the community modules that are
defined by a fold or `SelectSeq` stay out of reach; the models use `Escoge` where a
theorem depends on the list.

Only model-checked: the results of the authors' tests over the network
(`ResultadoPruebas`), which are about one instance, its tables and the history of a message;
every liveness property (`SiempreVuelve`, `TablaAlDia`, `SeVacia`, `AvisaEnReposo`,
`SeArchiva`, `LlamadasVuelven`, `ConsultaAcaba`, `ListadoTermina`), which needs fairness and
`ENABLED`; and those that TLC refutes.

## 7. Not modelled

- What the router does once a row has been stored past the array: in the build kept
  in the repository it has overwritten `rango_unicast`, and the model ends.
- What the reader of a listing takes for messages behind five failing `recv`s or more
  (see 4), and what a reader of hexadecimal finds behind a text without an end.
- The redrawing of the phone's window beyond one widget; C++ data races other than
  `Colision`.
- Loss in the capture buffer or on a live link; the ICMPv6 helpers of `NET.c`;
  argument checks and printing.
- The word `id[-1]` that the parsing of labels writes: padding in the build.
- That the probe's monitor never reads the status nor starts the alarm call,
  as the probe's README says it does: there is no code to model.
- `print_route`'s text, the parsers of times and rates of `UTILS.c`. A filter by
  gateway or preferred source on a route that has the attribute: `host_len` is a
  number of bits and as many bytes are copied (`ip_functions.c:225`, `231`), so
  nothing is defined after it; no instance sets one.
- `GUImaster.cpp`, an earlier window with the same callbacks and no login or
  signals, and `GUIclient_rtpok.cpp`, an earlier version of `GUIclient.cpp`.
- The alarm call: a straight sequence of commands. Old copies and experiments,
  in no build. The scripts: input and output.

## 8. Plan

Done, in this order: the router (`RT`, `IFS`, `Decision`, `GeopagRouter`), its
promise (`Reenvio`) and proofs, the distance, the network, the probe; then the
phone, the record sender, the netlink programs and the iproute2 code, and the proofs
of the network, the probe, the monitor, the sender, the phone and the library; then the
induction over lists and, with it, the rows and decisions of the router, whole dumps,
the listings, the questions, the flush, the distance and its measurements, the parsers,
and the netlink programs together.

Left:

1. A theorem about the network that says how often a site is paged, which needs a
   hypothesis about loops in the tables.
2. `GUImaster`, and the phone with the time the library takes to answer as a
   property of its own.
3. Aggregated routes in the network of routers, with a table whose rows are
   clusters.
