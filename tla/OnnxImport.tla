----------------------------- MODULE OnnxImport -----------------------------
(***************************************************************************)
(* The way of an ONNX model into a Relay function: python/kxc_onnx turns   *)
(* the graph into a specification and writes it to two files, one with     *)
(* the JSON text and one with the bytes of the parameters;                 *)
(* LoadONNXImportSpec (src/frontend/onnx_importer.cc) reads them back.     *)
(*                                                                         *)
(* A graph is [initializer, input, node, output, feed]: tensors            *)
(* [name, shape, t, cells]; value infos [name, shape, t], where -1 is a    *)
(* dimension without a dim_value; nodes [op_type, input, output, attrs];   *)
(* and the cells a caller of the compiled model passes for an input name.  *)
(* A byte is a scalar and the number of its byte; a JSON text is the value *)
(* it parses to, its leaves with the kind the writer gave them.            *)
(***************************************************************************)
EXTENDS RelayEval

Json(kind, v) == [kind |-> kind, v |-> v]

----------------------------------------------------------------------------
(* python/kxc_onnx *)

ONNX_TO_RELAY ==
    [Conv |-> "nn_conv2d", Relu |-> "nn_relu", MaxPool |-> "nn_max_pool2d", Add |-> "add",
     GlobalAveragePool |-> "nn_global_avg_pool2d", Flatten |-> "nn_flatten", Gemm |-> "nn_gemm"]

(* numpy has a dtype the compiler does not know: u32. *)
ItemSize(t) == CASE t = "bool" -> 1 [] t = "i64" -> 8 [] OTHER -> 4

tobytes(t, cells) ==
    [i \in 1..(Len(cells) * ItemSize(t)) |->
        [of |-> cells[((i - 1) \div ItemSize(t)) + 1], byte |-> (i - 1) % ItemSize(t)]]

ParamTensor(initializer) ==
    [name |-> initializer.name, shape |-> initializer.shape, dtype |-> initializer.t,
     data |-> tobytes(initializer.t, initializer.cells)]

Names(seq) == [i \in DOMAIN seq |-> seq[i].name]

(* A dict: of two tensors with one name the later one stays. *)
LastNamed(seq, name) == seq[CHOOSE i \in DOMAIN seq : /\ seq[i].name = name
                                                      /\ \A j \in DOMAIN seq : seq[j].name = name => j <= i]

Params(graph) ==
    [name \in ToSet(Names(graph.initializer)) |-> ParamTensor(LastNamed(graph.initializer, name))]

tensor_spec_from_value_info(info, default_batch) ==
    [name |-> info.name, dtype |-> info.t,
     shape |-> [i \in DOMAIN info.shape |-> IF info.shape[i] >= 0 THEN info.shape[i]
                                            ELSE IF i = 1 THEN default_batch ELSE 1]]

(* A Conv whose weight is no initializer is refused before its attributes  *)
(* are read.                                                               *)
HasWeight(node, params) ==
    node.op_type = "Conv" => Len(node.input) >= 2 /\ node.input[2] \in DOMAIN params

convert_attrs(node, params) ==
    LET attrs == node.attrs
        list_attr(name, default)  == Json("Ints", Attr(attrs, name, default))
        int_attr(name, default)   == Json("Int", Attr(attrs, name, default))
        float_attr(name, default) == Json("Double", Attr(attrs, name, default))
        shape == params[node.input[2]].shape
    IN  CASE node.op_type = "Conv" ->
                [strides |-> list_attr("strides", <<1, 1>>), pads |-> list_attr("pads", <<0, 0, 0, 0>>),
                 dilations |-> list_attr("dilations", <<1, 1>>), group |-> int_attr("group", 1),
                 channels |-> Json("Int", shape[1]),
                 kernel_size |-> list_attr("kernel_shape", SubSeq(shape, 3, IF Len(shape) < 4 THEN Len(shape) ELSE 4)),
                 data_layout |-> Json("String", "NCHW"), kernel_layout |-> Json("String", "OIHW"),
                 out_layout |-> Json("String", ""), out_dtype |-> Json("String", "")]
          [] node.op_type = "MaxPool" ->
                [strides |-> list_attr("strides", <<1, 1>>), pads |-> list_attr("pads", <<0, 0, 0, 0>>),
                 dilations |-> list_attr("dilations", <<1, 1>>),
                 pool_size |-> list_attr("kernel_shape", <<1, 1>>), layout |-> Json("String", "NCHW"),
                 ceil_mode |-> Json("Bool", Attr(attrs, "ceil_mode", 0) # 0)]
          [] node.op_type = "Flatten" -> [axis |-> int_attr("axis", 1)]
          [] node.op_type = "Gemm" ->
                [alpha |-> float_attr("alpha", 1), beta |-> float_attr("beta", 1),
                 transA |-> int_attr("transA", 0), transB |-> int_attr("transB", 0)]
          [] OTHER -> <<>>

(* An absent optional input has the empty name and is dropped. *)
Given(names) == SelectSeq(names, LAMBDA name : name # "")

RelayNodeSpec(node, params) ==
    [op_name |-> ONNX_TO_RELAY[node.op_type], inputs |-> Given(node.input),
     outputs |-> node.output, attrs |-> convert_attrs(node, params)]

(* The names a node may use: inputs, parameters and earlier outputs. *)
AvailableValues(graph, n) ==
    ToSet(Names(graph.input)) \cup ToSet(Names(graph.initializer))
        \cup UNION {ToSet(graph.node[i].output) : i \in 1..(n - 1)}

Importable(graph) ==
    \A n \in DOMAIN graph.node :
        LET node == graph.node[n]
        IN  /\ node.op_type \in DOMAIN ONNX_TO_RELAY
            /\ Len(node.output) = 1
            /\ ToSet(Given(node.input)) \subseteq AvailableValues(graph, n)
            /\ HasWeight(node, Params(graph))

NoImport == [param_order |-> <<"error">>]

ImportedModel(graph, params, default_batch) ==
    LET Spec(infos) == [i \in DOMAIN infos |-> tensor_spec_from_value_info(infos[i], default_batch)]
    IN  [inputs      |-> Spec(SelectSeq(graph.input, LAMBDA info : info.name \notin DOMAIN params)),
         outputs     |-> Spec(graph.output),
         nodes       |-> [n \in DOMAIN graph.node |-> RelayNodeSpec(graph.node[n], params)],
         params      |-> params,
         param_order |-> Names(graph.initializer)]

import_onnx_model(graph, default_batch) ==
    IF Importable(graph) THEN ImportedModel(graph, Params(graph), default_batch) ELSE NoImport

(* Mutant of Offset: a record's own bytes are already counted. *)
OffsetAfter(imported, n) ==
    FoldLeft(LAMBDA sum, name : sum + Len(imported.params[name].data), 0,
             SubSeq(imported.param_order, 1, n))

(* The bytes of the parameters before the n-th. *)
Offset(imported, n) ==
    FoldLeft(LAMBDA sum, name : sum + Len(imported.params[name].data), 0,
             SubSeq(imported.param_order, 1, n - 1))

ParamRecord(imported, n) ==
    LET param == imported.params[imported.param_order[n]]
    IN  [name |-> param.name, shape |-> param.shape, dtype |-> param.dtype,
         offset |-> Offset(imported, n), nbytes |-> Len(param.data)]

to_json_dict(imported) ==
    [format      |-> "kxc.onnx_import.v1",
     inputs      |-> imported.inputs, outputs |-> imported.outputs, nodes |-> imported.nodes,
     params      |-> [n \in DOMAIN imported.param_order |-> ParamRecord(imported, n)],
     param_order |-> imported.param_order]

save_imported_model(imported) ==
    [params |-> FlattenSeq([n \in DOMAIN imported.param_order |->
                               imported.params[imported.param_order[n]].data]),
     json   |-> to_json_dict(imported)]

----------------------------------------------------------------------------
(* src/base/ndarray.cc *)

(* Any dtype it does not know is a float32. *)
ParseDType(dtype) == IF dtype \in {"f32", "i32", "i64", "bool"} THEN dtype ELSE "f32"

(* An array without elements has one byte. *)
NBytes(shape, t) == IF Product(shape) = 0 THEN 1 ELSE Product(shape) * ItemSize(t)

(* The cells that bytes copied into an array amount to: those they are the *)
(* bytes of, if they lie as they did there.                                *)
CopyFromBytes(shape, t, bytes) ==
    LET At(n, k) == bytes[(n - 1) * ItemSize(t) + k + 1]
    IN  [n \in 1..Product(shape) |->
            IF \A k \in 0..(ItemSize(t) - 1) : At(n, k) = [of |-> At(n, 0).of, byte |-> k] /\ At(n, k).of.t = t
            THEN At(n, 0).of ELSE Bad]

----------------------------------------------------------------------------
(* src/frontend/onnx_importer.cc: st.values gives each name the position   *)
(* of its node, st.ok says that nothing has thrown.                        *)

(* The fields MakeAttrs reads, with the kind it requires of each. *)
AttrKinds(op_name) ==
    CASE op_name = "nn_conv2d" ->
            [strides |-> {"Ints"}, pads |-> {"Ints"}, dilations |-> {"Ints"}, group |-> {"Int"},
             channels |-> {"Int"}, kernel_size |-> {"Ints"}, data_layout |-> {"String"},
             kernel_layout |-> {"String"}, out_layout |-> {"String"}, out_dtype |-> {"String"}]
      [] op_name = "nn_max_pool2d" ->
            [strides |-> {"Ints"}, pads |-> {"Ints"}, dilations |-> {"Ints"}, pool_size |-> {"Ints"},
             layout |-> {"String"}, ceil_mode |-> {"Bool"}]
      [] op_name = "nn_flatten" -> [axis |-> {"Int"}]
      [] op_name = "nn_gemm" ->
            [alpha |-> {"Int", "Double"}, beta |-> {"Int", "Double"}, transA |-> {"Int"}, transB |-> {"Int"}]
      [] OTHER -> <<>>

Readable(op_name, attrs) ==
    /\ op_name \in {"nn_conv2d", "nn_relu", "nn_max_pool2d", "add", "nn_global_avg_pool2d", "nn_flatten", "nn_gemm"}
    /\ \A field \in DOMAIN AttrKinds(op_name) :
        /\ field \in DOMAIN attrs
        /\ attrs[field].kind \in AttrKinds(op_name)[field]
        /\ AttrKinds(op_name)[field] = {"Int"} => attrs[field].v \in MinOf("i32")..MaxOf("i32")

(* The attribute nodes of the operators; no out_dtype is an empty one. *)
MakeAttrs(op_name, attrs) ==
    CASE op_name = "nn_conv2d" ->
            [strides |-> attrs.strides.v, padding |-> attrs.pads.v, dilation |-> attrs.dilations.v,
             groups |-> attrs.group.v, channels |-> attrs.channels.v,
             kernel_size |-> attrs.kernel_size.v, data_layout |-> attrs.data_layout.v,
             kernel_layout |-> attrs.kernel_layout.v]
      [] op_name = "nn_max_pool2d" ->
            [strides |-> attrs.strides.v, padding |-> attrs.pads.v, dilation |-> attrs.dilations.v,
             pool_size |-> attrs.pool_size.v, layout |-> attrs.layout.v, ceil_mode |-> attrs.ceil_mode.v]
      [] op_name = "nn_flatten" -> [axis |-> attrs.axis.v]
      [] op_name = "nn_gemm" ->
            [alpha |-> attrs.alpha.v, beta |-> attrs.beta.v,
             transA |-> attrs.transA.v, transB |-> attrs.transB.v]
      [] OTHER -> <<>>

Bound(st, name, node) ==
    [st EXCEPT !.nodes = Append(@, node), !.values = name :> (Len(st.nodes) + 1) @@ @]

Checked(ok, st, next) == IF ok /\ st.ok THEN next ELSE [st EXCEPT !.ok = FALSE]

LoadInput(st, input) == Bound(st, input.name, Param(TensorType(input.shape, input.dtype)))

LoadParam(st, param, bytes) ==
    LET t == ParseDType(param.dtype)
    IN  Checked(/\ param.offset >= 0 /\ param.nbytes >= 0
                 /\ param.offset + param.nbytes <= Len(bytes)
                 /\ param.nbytes = NBytes(param.shape, t),
                 st,
                 Bound(st, param.name,
                       Constant(TensorType(param.shape, t),
                                CopyFromBytes(param.shape, t, SubSeq(bytes, param.offset + 1,
                                                                     param.offset + param.nbytes)))))

LoadNode(st, node) ==
    Checked(/\ Len(node.outputs) = 1
             /\ ToSet(node.inputs) \subseteq DOMAIN st.values
             /\ Readable(node.op_name, node.attrs),
             st,
             Bound(st, node.outputs[1],
                   CallNode(node.op_name, [i \in DOMAIN node.inputs |-> st.values[node.inputs[i]]],
                            MakeAttrs(node.op_name, node.attrs))))

NoProgram == [params |-> <<>>, nodes |-> <<>>, body |-> 0, data |-> <<>>]

(* One output is the body itself, several are a tuple. *)
LoadOutputs(st, json, feed) ==
    LET out   == [i \in DOMAIN json.outputs |-> st.values[json.outputs[i].name]]
        tuple == Len(out) > 1
    IN  IF \/ ~st.ok \/ json.outputs = <<>>
           \/ \E i \in DOMAIN json.outputs : json.outputs[i].name \notin DOMAIN st.values
        THEN NoProgram
        ELSE [params |-> [i \in DOMAIN json.inputs |-> i],
              nodes  |-> IF tuple THEN Append(st.nodes, Tuple(out)) ELSE st.nodes,
              body   |-> IF tuple THEN Len(st.nodes) + 1 ELSE out[1],
              data   |-> [i \in DOMAIN json.inputs |-> feed[json.inputs[i].name]]]

LoadInputs(json) ==
    FoldLeft(LoadInput, [ok |-> json.format = "kxc.onnx_import.v1" /\ json.param_order = Names(json.params),
                         nodes |-> <<>>, values |-> <<>>],
             json.inputs)

LoadParams(st, json, bytes) == FoldLeft(LAMBDA s, param : LoadParam(s, param, bytes), st, json.params)

LoadNodes(st, json) == FoldLeft(LoadNode, st, json.nodes)

(* feed is the data of the calls to come. *)
LoadONNXImportSpec(files, feed) ==
    LoadOutputs(LoadNodes(LoadParams(LoadInputs(files.json), files.json, files.params), files.json),
                files.json, feed)

----------------------------------------------------------------------------
(* What a graph means by the ONNX operator definitions: the reference an   *)
(* import is compared with.  Attributes that are not set have the values   *)
(* the Relay operators give them too: strides and dilations of 1, no       *)
(* padding, axis 1, factors of 1 and no transposition.                     *)

RelayName == [strides |-> "strides", pads |-> "padding", dilations |-> "dilation", axis |-> "axis",
              kernel_shape |-> "pool_size", ceil_mode |-> "ceil_mode",
              alpha |-> "alpha", beta |-> "beta", transA |-> "transA", transB |-> "transB"]

OnnxAttrs(attrs) ==
    LET Value(f) == IF f = "ceil_mode" THEN attrs[f] # 0 ELSE attrs[f]
    IN  [r \in {RelayName[f] : f \in DOMAIN attrs} |->
            Value(CHOOSE f \in DOMAIN attrs : RelayName[f] = r)]

Concrete(shape, default_batch) ==
    [i \in DOMAIN shape |-> IF shape[i] >= 0 THEN shape[i] ELSE IF i = 1 THEN default_batch ELSE 1]

TypeOf(x) == TensorType(x.shape, (x.at[CHOOSE ix \in DOMAIN x.at : TRUE]).t)

OnnxCall(op, attrs, in) ==
    EvalCall(op, attrs, in, InferCall(op, attrs, [i \in DOMAIN in |-> TypeOf(in[i])]))

(* The values of the names, node by node. *)
OnnxGiven(graph, default_batch) ==
    [name \in DOMAIN graph.feed |->
        FromCells(Concrete(LastNamed(graph.input, name).shape, default_batch), graph.feed[name])]

OnnxNode(env, node) ==
    (node.output[1] :> OnnxCall(ONNX_TO_RELAY[node.op_type], OnnxAttrs(node.attrs),
                                [i \in DOMAIN Given(node.input) |-> env[Given(node.input)[i]]])) @@ env

OnnxValues(graph, default_batch) ==
    FoldLeft(OnnxNode,
             [name \in ToSet(Names(graph.initializer)) |->
                 LET x == LastNamed(graph.initializer, name) IN FromCells(x.shape, x.cells)]
             @@ OnnxGiven(graph, default_batch),
             graph.node)

CellsOf(env, output) == [i \in DOMAIN output |-> Cells(env[output[i].name])]

OnnxMeaning(graph, default_batch) == CellsOf(OnnxValues(graph, default_batch), graph.output)
=============================================================================
