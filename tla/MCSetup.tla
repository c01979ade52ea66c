------------------------------ MODULE MCSetup ------------------------------
(***************************************************************************)
(* Instances of Setup for TLC: command lines, drivers, cards and files.      *)
(***************************************************************************)
EXTENDS Setup

MCChains == {
    <<"camera", "screen">>, <<"camera", "egl">>, <<"camera", "file">>,
    <<"camera", "passthrough", "file">>, <<"camera", "passthrough", "screen">>,
    <<"camera", "copy", "screen">>, <<"camera", "copy", "m2m", "file">>, <<"camera", "egl", "screen">>, <<"camera", "egl", "passthrough", "file">>,
    <<"camera", "m2m", "file">>, <<"camera", "m2m", "screen">>,
    <<"camera", "hailo", "file">>, <<"camera", "tile", "hailo", "file">>, <<"camera", "tile", "m2m", "file">>,
    <<"camera", "writeback", "file">> }

Size(w, h) == [w |-> w, h |-> h]
Driver(caps, formats, stepwise, sizes, min) ==
    [caps |-> caps \cup {"streaming"}, formats |-> formats, fourcc |-> formats[1],
     stepwise |-> stepwise, sizes |-> sizes, width |-> sizes[1].w, height |-> sizes[1].h,
     parm |-> stepwise, rate |-> 30, pixelrate |-> 6000, hblank |-> 2, vblank |-> 2, vmax |-> 100,
     min |-> min]
MCDrivers == {
    Driver({"capture"}, <<"MJPG", "YUYV">>, FALSE, <<Size(4, 3), Size(8, 6), Size(16, 9)>>, 1),
    Driver({"capture_mplane"}, <<"NV12", "RGB4">>, TRUE, <<Size(2, 2), Size(8, 6)>>, 3),
    Driver({"meta_capture"}, <<"META">>, FALSE, <<Size(4, 1)>>, 1),
    [Driver({"capture"}, <<"YUYV">>, FALSE, <<Size(4, 3)>>, 1) EXCEPT !.caps = {"capture"}] }
MCM2mDriver == Driver({"m2m_mplane"}, <<"NV12", "YUYV">>, TRUE, <<Size(2, 2), Size(8, 6)>>, 2)

Value(x) == [value |-> x, object |-> FALSE]
Object(x) == [value |-> x, object |-> TRUE]
NamedEntry(name, type, disabled, definition) ==
    [names |-> {name}, type |-> type, disabled |-> disabled, definition |-> definition]
Plain == << NamedEntry("m2m", "m2m", FALSE, [fps |-> Value(15)]), NamedEntry("passthrough", "passthrough", FALSE, <<>>),
            NamedEntry("copy", "copy", FALSE, <<>>), NamedEntry("egl", "egl", FALSE, <<>>),
            NamedEntry("hailo", "hailo", FALSE, <<>>), NamedEntry("tile", "tile", FALSE, <<>>),
            NamedEntry("writeback", "writeback", FALSE, <<>>), NamedEntry("file", "file", FALSE, <<>>) >>
MCFiles == {
    << NamedEntry("camera", "camera", TRUE, [fourcc |-> Value("MJPG")]),
       NamedEntry("camera", "camera", FALSE, [width |-> Value(8), height |-> Object(6), fps |-> Object(10)]),
       NamedEntry("screen", "screen", FALSE, [fourcc |-> Value("XB24"), fps |-> Value(25)]) >> \o Plain,
    << NamedEntry("camera", "camera", FALSE, [fourcc |-> Value("XB24"), fps |-> Value(20)]),
       NamedEntry("screen", "framebuffer", FALSE, <<>>) >> \o Plain,
    << NamedEntry("camera", "camera", FALSE, <<>>),
       NamedEntry("screen", "screen", FALSE, <<>>) >> \o Plain }
MCCommandLine == {
    [in |-> <<>>, out |-> <<>>],
    [in |-> [height |-> 9, fourcc |-> "YUYV"], out |-> [width |-> 4, height |-> 4, fps |-> 5]] }

Enc(id, crtc, possible) == [id |-> id, crtc |-> crtc, possible |-> possible]
Conn(encoder, encoders, writeback, connected) ==
    [encoder |-> encoder, encoders |-> encoders, writeback |-> writeback, connected |-> connected,
     modes |-> << [w |-> 16, h |-> 9, preferred |-> FALSE], [w |-> 8, h |-> 6, preferred |-> TRUE],
                  [w |-> 8, h |-> 6, preferred |-> FALSE] >>]
Plane(primary, crtcs, formats) == [primary |-> primary, crtcs |-> crtcs, formats |-> formats]
AllPlanes == << Plane(FALSE, {31}, <<"YUYV">>), Plane(TRUE, {31}, <<"XB24", "YUYV", "MJPG">>),
                Plane(TRUE, {32}, <<"XB24", "NV12", "YUYV">>) >>
MCCards == {
    \* HDMI bound to its encoder, a writeback that never was
    [encoders |-> <<Enc(21, 0, {32}), Enc(22, 31, {31, 32})>>, crtcs |-> <<31, 32>>, planes |-> AllPlanes,
     connectors |-> <<Conn(22, <<22>>, FALSE, TRUE), Conn(0, <<21>>, TRUE, TRUE)>>],
    \* nothing bound: the free encoder is the one of HDMI
    [encoders |-> <<Enc(21, 0, {32}), Enc(22, 0, {31})>>, crtcs |-> <<31, 32>>, planes |-> AllPlanes,
     connectors |-> <<Conn(0, <<21>>, TRUE, TRUE), Conn(0, <<>>, FALSE, FALSE), Conn(0, <<22>>, FALSE, TRUE)>>],
    \* nothing bound: the free encoder is the one of the writeback
    [encoders |-> <<Enc(22, 0, {31}), Enc(21, 0, {32})>>, crtcs |-> <<31, 32>>, planes |-> AllPlanes,
     connectors |-> <<Conn(0, <<22>>, FALSE, TRUE), Conn(0, <<21>>, TRUE, TRUE)>>],
    \* nothing connected
    [encoders |-> <<Enc(22, 0, {31})>>, crtcs |-> <<31>>, planes |-> AllPlanes,
     connectors |-> <<Conn(0, <<22>>, FALSE, FALSE)>>] }
MCTiling == [width |-> 2, height |-> 2, ntiles |-> 3]
=============================================================================
